---- MODULE Spec2Model ----
(***************************************************************************)
(* A model of zktls-lab: the ZkTLSPriceOracle contract                     *)
(* (contracts/ZkTLSPriceOracle.sol) as a state machine over its storage,   *)
(* and the attestation encoder / signature verifier (src/lib/encoding.ts), *)
(* the price library and the packer of circuit inputs as operators applied *)
(* by specifications of their own (SpecSig, SpecEnc, SpecPack, SpecPrice). *)
(*                                                                         *)
(* Conventions.  A Solidity address (uint160) is its 20 big-endian bytes,  *)
(* a bytes32 its 32 big-endian bytes; both are sequences of 0..255.  A     *)
(* public-input slot (bytes32 read as uint256) is a natural in 0..WordMax. *)
(* Solidity indexes from 0, sequences from 1: Slot(pi, i) is               *)
(* publicInputs[i].                                                        *)
(***************************************************************************)
EXTENDS Integers, Sequences, FiniteSets, TLC

VARIABLES
    deployed,               \* the constructor has run to completion
    verifier,               \* HonkVerifier public immutable verifier
    trustedAttestor,        \* address public trustedAttestor
    owner,                  \* address public owner
    pendingAttestorChange,  \* PendingAttestorChange {newAttestor, executeAfter}
    usedProofHashes,        \* mapping(bytes32 => bool): the keys mapped to true
    latestPrice,            \* PriceData public latestPrice
    now,                    \* block.timestamp, seconds
    ticks,                  \* number of block-time advances so far
    successCount,           \* history: successful updatePrice calls per packedHash
    proposal,               \* history: the latest proposeAttestor still open
    lastCall,               \* history: the most recent transaction and its outcome
    att,                    \* the Attestation record handed to the verifier library
    signedAtt,              \* history: the record as the attestor signed it
    sigResult,              \* outcome of verifyAttestationSignature(att)
    recA,                   \* an Attestation record handed to the encoder
    recB,                   \* a second record, recA with some fields changed
    encOut,                 \* what the encoder returned for recA and for recB
    packIn,                 \* the field handed to the public-input packer
    packed,                 \* the slot entries the packer produced for it
    unpacked,               \* the field read back from the packed slots
    priceIn,                \* the price handed to parsePrice
    priceOut,               \* what parsePrice of the price library returned
    scriptOut               \* what parsePrice of the script returned

oracleVars == <<deployed, verifier, trustedAttestor, owner, pendingAttestorChange,
                usedProofHashes, latestPrice, now, ticks, successCount, proposal,
                lastCall>>
storageVars == <<deployed, verifier, trustedAttestor, owner, pendingAttestorChange,
                 usedProofHashes, latestPrice>>
sigVars == <<att, signedAtt, sigResult>>
encVars == <<recA, recB, encOut>>
packVars == <<packIn, packed, unpacked>>
priceVars == <<priceIn, priceOut, scriptOut>>
libVars == <<sigVars, encVars, packVars, priceVars>>
notSigVars == <<oracleVars, encVars, packVars, priceVars>>
notEncVars == <<oracleVars, sigVars, packVars, priceVars>>
notPackVars == <<oracleVars, sigVars, encVars, priceVars>>
notPriceVars == <<oracleVars, sigVars, encVars, packVars>>
vars == <<deployed, verifier, trustedAttestor, owner, pendingAttestorChange,
          usedProofHashes, latestPrice, now, ticks, successCount, proposal,
          lastCall, att, signedAtt, sigResult, recA, recB, encOut, packIn,
          packed, unpacked, priceIn, priceOut, scriptOut>>

(***************************************************************************)
(* Program constants of the contract.                                      *)
(***************************************************************************)
ATTESTOR_TIMELOCK == 172800
MAX_ATTESTATION_AGE == 300
EXPECTED_PUBLIC_INPUTS == 86

(***************************************************************************)
(* Bounds of the model.                                                    *)
(***************************************************************************)
\* Largest value of a slot / uint256 in the model (stands for 2^256 - 1).
WordMax == 2000000000
\* Block time at deployment, seconds.
GenesisTime == 1000
\* Number of block-time advances explored.
MaxTicks == 2

Byte == 0..255

\* uint8(uint256(x)): the low 8 bits of a word.
Uint8(x) == x % 256

\* publicInputs[i], 0-based as in Solidity.
Slot(publicInputs, i) == publicInputs[i + 1]

ZeroBytes(n) == [i \in 1..n |-> 0]
ZeroAddress == ZeroBytes(20)
ZeroBytes32 == ZeroBytes(32)

\* Sample 20-byte addresses and 32-byte hashes; bytes differ by position so that
\* byte order is observable.
AddressOf(k) == [i \in 1..20 |-> (k * 16 + i) % 256]
HashOf(k) == [i \in 1..32 |-> (k * 40 + 3 * i) % 256]

Deployer == AddressOf(1)
Stranger == AddressOf(2)
Attestor1 == AddressOf(3)
Attestor2 == AddressOf(4)
VerifierAddr == AddressOf(5)
Accounts == {Deployer, Stranger}

NoCall == [op |-> "none", sender |-> ZeroAddress, arg |-> ZeroAddress,
           proofOk |-> FALSE, publicInputs |-> <<>>, error |-> "none",
           verifierCalled |-> FALSE, slotsRead |-> {}]

Call(op, sender, arg, error) ==
    [op |-> op, sender |-> sender, arg |-> arg, proofOk |-> FALSE,
     publicInputs |-> <<>>, error |-> error, verifierCalled |-> FALSE,
     slotsRead |-> {}]

NoProposal == [open |-> FALSE, newAttestor |-> ZeroAddress, at |-> 0]
NoPending == [newAttestor |-> ZeroAddress, executeAfter |-> 0]
NoPrice == [price |-> 0, attestationTimestamp |-> 0, blockTimestamp |-> 0,
            responseDataHash |-> ZeroBytes32, packedHash |-> ZeroBytes32]

(***************************************************************************)
(* Field extraction (_extractAddress, _extractBytes32).                    *)
(***************************************************************************)
\* (acc << 8) | byteVal on a fixed-width big-endian value: the top byte is
\* shifted out, the low byte becomes byteVal.
Shl8Or(acc, byteVal) == Tail(acc) \o <<byteVal>>

RECURSIVE ExtractLoop(_, _, _, _, _)
\* for (i = 0; i < n; i++) { byteVal = uint8(uint256(publicInputs[startIndex + i]));
\*                           acc = (acc << 8) | byteVal; }
ExtractLoop(publicInputs, startIndex, i, n, acc) ==
    IF i >= n THEN acc
    ELSE ExtractLoop(publicInputs, startIndex, i + 1, n,
                     Shl8Or(acc, Uint8(Slot(publicInputs, startIndex + i))))

_extractAddress(publicInputs, startIndex) ==
    ExtractLoop(publicInputs, startIndex, 0, 20, ZeroBytes(20))

\* A bug: the bytes are assembled least significant first.
_extractBytes32_LittleEndian(publicInputs, startIndex) ==
    [i \in 1..32 |-> Uint8(Slot(publicInputs, startIndex + 32 - i))]

\* function _extractBytes32(bytes32[] calldata publicInputs, uint256 startIndex)
_extractBytes32(publicInputs, startIndex) ==
    ExtractLoop(publicInputs, startIndex, 0, 32, ZeroBytes(32))

\* The indices a loop of n reads from startIndex on, up to and including the first
\* one outside the array (where Solidity's bounds check panics).
IndicesRead(publicInputs, startIndex, n) ==
    {j \in startIndex..(startIndex + n - 1) : j <= Len(publicInputs)}

\* Some read of publicInputs[startIndex .. startIndex+n-1] is out of bounds.
OutOfBounds(publicInputs, startIndex, n) == startIndex + n > Len(publicInputs)

(***************************************************************************)
(* The checks of updatePrice, one operator per condition of the code.      *)
(***************************************************************************)
\* A bug: the length is only bounded from above.
LengthOk_AtMost(publicInputs) == Len(publicInputs) <= EXPECTED_PUBLIC_INPUTS
LengthOk(publicInputs) == Len(publicInputs) = EXPECTED_PUBLIC_INPUTS

\* A bug: the attestor of the proof is compared with nothing.
AttestorMatches_Unchecked(proofAttestor) == TRUE
AttestorMatches(proofAttestor) == proofAttestor = trustedAttestor

\* Checked uint256 addition overflows (Solidity 0.8 panics).
AddOverflows(a, b) == a + b > WordMax

\* A bug: the age limit itself is already too old.
IsStale_OffByOne(attestationTimestamp) ==
    now >= attestationTimestamp + MAX_ATTESTATION_AGE
IsStale(attestationTimestamp) ==
    now > attestationTimestamp + MAX_ATTESTATION_AGE

\* A bug: the replay guard is never consulted.
AlreadyUsed_Never(packedHash) == FALSE
AlreadyUsed(packedHash) == packedHash \in usedProofHashes

\* A bug: the replay check is made before the staleness check.
UpdatePriceRun_ReplayFirst(proofOk, publicInputs) ==
    LET run(error) ==
            [error |-> error, verifierCalled |-> TRUE,
             slotsRead |-> IndicesRead(publicInputs, 0, EXPECTED_PUBLIC_INPUTS),
             data |-> NoPrice]
    IN  IF ~LengthOk(publicInputs)
        THEN [error |-> "InvalidPublicInputsLength", verifierCalled |-> FALSE,
              slotsRead |-> {}, data |-> NoPrice]
        ELSE IF ~proofOk
        THEN [error |-> "InvalidProof", verifierCalled |-> TRUE,
              slotsRead |-> {}, data |-> NoPrice]
        ELSE IF OutOfBounds(publicInputs, 0, EXPECTED_PUBLIC_INPUTS) THEN run("Panic")
        ELSE IF ~AttestorMatches(_extractAddress(publicInputs, 0))
             THEN run("InvalidAttestor")
        ELSE IF AlreadyUsed(_extractBytes32(publicInputs, 54))
             THEN run("ProofAlreadyUsed")
        ELSE IF AddOverflows(Slot(publicInputs, 21), MAX_ATTESTATION_AGE)
             THEN run("Panic")
        ELSE IF IsStale(Slot(publicInputs, 21)) THEN run("AttestationTooOld")
        ELSE [error |-> "none", verifierCalled |-> TRUE,
              slotsRead |-> IndicesRead(publicInputs, 0, EXPECTED_PUBLIC_INPUTS),
              data |-> [price |-> Slot(publicInputs, 20),
                        attestationTimestamp |-> Slot(publicInputs, 21),
                        blockTimestamp |-> now,
                        responseDataHash |-> _extractBytes32(publicInputs, 22),
                        packedHash |-> _extractBytes32(publicInputs, 54)]]

\* The run of updatePrice on (proof, publicInputs) up to its revert or its end:
\* the error it reverts with ("none": it succeeds), whether verifier.verify was
\* called, the slots it indexed, and the fields it extracted.
UpdatePriceRun(proofOk, publicInputs) ==
    LET run(error, called, read) ==
            [error |-> error, verifierCalled |-> called, slotsRead |-> read,
             data |-> NoPrice]
        r0 == {}
        r1 == r0 \cup IndicesRead(publicInputs, 0, 20)
        r2 == r1 \cup IndicesRead(publicInputs, 20, 1)
        r3 == r2 \cup IndicesRead(publicInputs, 21, 1)
        r4 == r3 \cup IndicesRead(publicInputs, 22, 32)
        r5 == r4 \cup IndicesRead(publicInputs, 54, 32)
    IN  IF ~LengthOk(publicInputs) THEN run("InvalidPublicInputsLength", FALSE, r0)
        ELSE IF ~proofOk THEN run("InvalidProof", TRUE, r0)
        ELSE IF OutOfBounds(publicInputs, 0, 20) THEN run("Panic", TRUE, r1)
        ELSE IF ~AttestorMatches(_extractAddress(publicInputs, 0))
             THEN run("InvalidAttestor", TRUE, r1)
        ELSE IF OutOfBounds(publicInputs, 20, 1) THEN run("Panic", TRUE, r2)
        ELSE IF OutOfBounds(publicInputs, 21, 1) THEN run("Panic", TRUE, r3)
        ELSE IF AddOverflows(Slot(publicInputs, 21), MAX_ATTESTATION_AGE)
             THEN run("Panic", TRUE, r3)
        ELSE IF IsStale(Slot(publicInputs, 21)) THEN run("AttestationTooOld", TRUE, r3)
        ELSE IF OutOfBounds(publicInputs, 22, 32) THEN run("Panic", TRUE, r4)
        ELSE IF OutOfBounds(publicInputs, 54, 32) THEN run("Panic", TRUE, r5)
        ELSE IF AlreadyUsed(_extractBytes32(publicInputs, 54))
             THEN run("ProofAlreadyUsed", TRUE, r5)
        ELSE [error |-> "none", verifierCalled |-> TRUE, slotsRead |-> r5,
              data |-> [price |-> Slot(publicInputs, 20),
                        attestationTimestamp |-> Slot(publicInputs, 21),
                        blockTimestamp |-> now,
                        responseDataHash |-> _extractBytes32(publicInputs, 22),
                        packedHash |-> _extractBytes32(publicInputs, 54)]]

Bump(count, h) ==
    IF h \in DOMAIN count THEN [count EXCEPT ![h] = @ + 1] ELSE count @@ (h :> 1)

\* A bug: the packed hash is marked as used before the checks are made, so a
\* rejected proof is burnt.
updatePrice_MarksRejected(sender, proofOk, publicInputs) ==
    LET r == UpdatePriceRun(proofOk, publicInputs) IN
    /\ deployed
    /\ lastCall = NoCall
    /\ lastCall' = [op |-> "updatePrice", sender |-> sender, arg |-> ZeroAddress,
                    proofOk |-> proofOk, publicInputs |-> publicInputs,
                    error |-> r.error, verifierCalled |-> r.verifierCalled,
                    slotsRead |-> r.slotsRead]
    /\ usedProofHashes' =
           IF Len(publicInputs) >= EXPECTED_PUBLIC_INPUTS
           THEN usedProofHashes \cup {_extractBytes32(publicInputs, 54)}
           ELSE usedProofHashes
    /\ IF r.error = "none"
       THEN /\ latestPrice' = r.data
            /\ successCount' = Bump(successCount, r.data.packedHash)
       ELSE UNCHANGED <<latestPrice, successCount>>
    /\ UNCHANGED <<deployed, verifier, trustedAttestor, owner,
                   pendingAttestorChange, now, ticks, proposal>>
    /\ UNCHANGED libVars

\* function updatePrice(bytes calldata proof, bytes32[] calldata publicInputs);
\* proofOk is what verifier.verify(proof, publicInputs) returns.
updatePrice(sender, proofOk, publicInputs) ==
    LET r == UpdatePriceRun(proofOk, publicInputs) IN
    /\ deployed
    /\ lastCall = NoCall
    /\ lastCall' = [op |-> "updatePrice", sender |-> sender, arg |-> ZeroAddress,
                    proofOk |-> proofOk, publicInputs |-> publicInputs,
                    error |-> r.error, verifierCalled |-> r.verifierCalled,
                    slotsRead |-> r.slotsRead]
    /\ IF r.error = "none"
       THEN /\ usedProofHashes' = usedProofHashes \cup {r.data.packedHash}
            /\ latestPrice' = r.data
            /\ successCount' = Bump(successCount, r.data.packedHash)
       ELSE UNCHANGED <<usedProofHashes, latestPrice, successCount>>
    /\ UNCHANGED <<deployed, verifier, trustedAttestor, owner,
                   pendingAttestorChange, now, ticks, proposal>>
    /\ UNCHANGED libVars

(***************************************************************************)
(* Constructor, attestor management and ownership.                         *)
(***************************************************************************)
\* A bug: the caller is compared with the trusted attestor instead of the owner.
NotOwner_WrongField(sender) == sender = trustedAttestor
NotOwner(sender) == sender # owner

\* A bug: the zero-address validation is missing.
IsZeroAddress_Missing(a) == FALSE
IsZeroAddress(a) == a = ZeroAddress

\* A bug: the timelock comparison is inverted.
TimelockNotExpired_Inverted(pending) == now > pending.executeAfter
TimelockNotExpired(pending) == now < pending.executeAfter

\* constructor(address _verifier, address _trustedAttestor)
constructor(sender, _verifier, _trustedAttestor) ==
    LET error == IF IsZeroAddress(_verifier) THEN "ZeroAddress"
                 ELSE IF IsZeroAddress(_trustedAttestor) THEN "ZeroAddress"
                 ELSE "none" IN
    /\ ~deployed
    /\ lastCall = NoCall
    /\ lastCall' = Call("constructor", sender, _trustedAttestor, error)
    /\ IF error = "none"
       THEN /\ deployed' = TRUE
            /\ verifier' = _verifier
            /\ trustedAttestor' = _trustedAttestor
            /\ owner' = sender
       ELSE UNCHANGED <<deployed, verifier, trustedAttestor, owner>>
    /\ UNCHANGED <<pendingAttestorChange, usedProofHashes, latestPrice, now, ticks,
                   successCount, proposal>>
    /\ UNCHANGED libVars

\* function proposeAttestor(address newAttestor) external
proposeAttestor(sender, newAttestor) ==
    LET error == IF NotOwner(sender) THEN "OnlyOwner"
                 ELSE IF IsZeroAddress(newAttestor) THEN "ZeroAddress"
                 ELSE "none" IN
    /\ deployed
    /\ lastCall = NoCall
    /\ lastCall' = Call("proposeAttestor", sender, newAttestor, error)
    /\ IF error = "none"
       THEN /\ pendingAttestorChange' =
                   [newAttestor |-> newAttestor,
                    executeAfter |-> now + ATTESTOR_TIMELOCK]
            /\ proposal' = [open |-> TRUE, newAttestor |-> newAttestor, at |-> now]
       ELSE UNCHANGED <<pendingAttestorChange, proposal>>
    /\ UNCHANGED <<deployed, verifier, trustedAttestor, owner, usedProofHashes,
                   latestPrice, now, ticks, successCount>>
    /\ UNCHANGED libVars

\* A bug: the pending change is not deleted after it is applied.
executeAttestorChange_KeepsPending(sender) ==
    LET pending == pendingAttestorChange
        error == IF NotOwner(sender) THEN "OnlyOwner"
                 ELSE IF IsZeroAddress(pending.newAttestor) THEN "NoPendingChange"
                 ELSE IF TimelockNotExpired(pending) THEN "TimelockNotExpired"
                 ELSE "none" IN
    /\ deployed
    /\ lastCall = NoCall
    /\ lastCall' = Call("executeAttestorChange", sender, ZeroAddress, error)
    /\ IF error = "none"
       THEN trustedAttestor' = pending.newAttestor
       ELSE UNCHANGED trustedAttestor
    /\ UNCHANGED <<deployed, verifier, owner, pendingAttestorChange, usedProofHashes,
                   latestPrice, now, ticks, successCount, proposal>>
    /\ UNCHANGED libVars

\* function executeAttestorChange() external
executeAttestorChange(sender) ==
    LET pending == pendingAttestorChange
        error == IF NotOwner(sender) THEN "OnlyOwner"
                 ELSE IF IsZeroAddress(pending.newAttestor) THEN "NoPendingChange"
                 ELSE IF TimelockNotExpired(pending) THEN "TimelockNotExpired"
                 ELSE "none" IN
    /\ deployed
    /\ lastCall = NoCall
    /\ lastCall' = Call("executeAttestorChange", sender, ZeroAddress, error)
    /\ IF error = "none"
       THEN /\ trustedAttestor' = pending.newAttestor
            /\ pendingAttestorChange' = NoPending
            /\ proposal' = NoProposal
       ELSE UNCHANGED <<trustedAttestor, pendingAttestorChange, proposal>>
    /\ UNCHANGED <<deployed, verifier, owner, usedProofHashes, latestPrice, now,
                   ticks, successCount>>
    /\ UNCHANGED libVars

\* function cancelAttestorChange() external
cancelAttestorChange(sender) ==
    LET cancelledAttestor == pendingAttestorChange.newAttestor
        error == IF NotOwner(sender) THEN "OnlyOwner"
                 ELSE IF IsZeroAddress(cancelledAttestor) THEN "NoPendingChange"
                 ELSE "none" IN
    /\ deployed
    /\ lastCall = NoCall
    /\ lastCall' = Call("cancelAttestorChange", sender, ZeroAddress, error)
    /\ IF error = "none"
       THEN /\ pendingAttestorChange' = NoPending
            /\ proposal' = NoProposal
       ELSE UNCHANGED <<pendingAttestorChange, proposal>>
    /\ UNCHANGED <<deployed, verifier, trustedAttestor, owner, usedProofHashes,
                   latestPrice, now, ticks, successCount>>
    /\ UNCHANGED libVars

\* A bug: a new owner starts with an empty set of used proof hashes.
transferOwnership_ResetsProofs(sender, newOwner) ==
    LET error == IF NotOwner(sender) THEN "OnlyOwner"
                 ELSE IF IsZeroAddress(newOwner) THEN "ZeroAddress"
                 ELSE "none" IN
    /\ deployed
    /\ lastCall = NoCall
    /\ lastCall' = Call("transferOwnership", sender, newOwner, error)
    /\ IF error = "none"
       THEN owner' = newOwner /\ usedProofHashes' = {}
       ELSE UNCHANGED <<owner, usedProofHashes>>
    /\ UNCHANGED <<deployed, verifier, trustedAttestor, pendingAttestorChange,
                   latestPrice, now, ticks, successCount, proposal>>
    /\ UNCHANGED libVars

\* function transferOwnership(address newOwner) external
transferOwnership(sender, newOwner) ==
    LET error == IF NotOwner(sender) THEN "OnlyOwner"
                 ELSE IF IsZeroAddress(newOwner) THEN "ZeroAddress"
                 ELSE "none" IN
    /\ deployed
    /\ lastCall = NoCall
    /\ lastCall' = Call("transferOwnership", sender, newOwner, error)
    /\ IF error = "none" THEN owner' = newOwner ELSE UNCHANGED owner
    /\ UNCHANGED <<deployed, verifier, trustedAttestor, pendingAttestorChange,
                   usedProofHashes, latestPrice, now, ticks, successCount, proposal>>
    /\ UNCHANGED libVars

\* A bug: the time of the update is returned instead of the attestation's.
getPrice_BlockTimestamp == <<latestPrice.price, latestPrice.blockTimestamp>>
\* function getPrice() external view returns (uint256 price, uint256 timestamp)
getPrice == <<latestPrice.price, latestPrice.attestationTimestamp>>

(***************************************************************************)
(* The environment: block time, callers and the arrays they submit.        *)
(***************************************************************************)
\* Block time advances between transactions: by a second, or by one second less
\* than the timelock.
TimeSteps == {1, ATTESTOR_TIMELOCK - 1}

Tick(d) ==
    /\ deployed
    /\ lastCall = NoCall
    /\ ticks < MaxTicks
    /\ now' = now + d
    /\ ticks' = ticks + 1
    /\ UNCHANGED <<storageVars, successCount, proposal, lastCall>>
    /\ UNCHANGED libVars

\* Transactions are observed one at a time: lastCall holds the receipt of the
\* transaction just executed until Settle discards it; storage is untouched.
Settle ==
    /\ lastCall # NoCall
    /\ lastCall' = NoCall
    /\ UNCHANGED <<storageVars, now, ticks, successCount, proposal>>
    /\ UNCHANGED libVars

\* The 86-slot layout: attestor (20 slots, one byte each), price (1 slot),
\* timestamp (1 slot), response hash (32), packed hash (32).
PackInputs(attestor, price, timestamp, responseHash, packedHash) ==
    attestor \o <<price, timestamp>> \o responseHash \o packedHash

\* The same array with a slot removed, a slot appended, or with bits set above
\* the low byte of a byte slot.
Shaped(publicInputs, shape) ==
    CASE shape = "exact" -> publicInputs
      [] shape = "short" -> SubSeq(publicInputs, 1, Len(publicInputs) - 1)
      [] shape = "long" -> publicInputs \o <<0>>
      [] shape = "dirty" -> [publicInputs EXCEPT ![1] = @ + 256, ![55] = @ + 512]

Prices == {2821}
PackedHashes == {HashOf(2), HashOf(3)}
ResponseHashes == {HashOf(1)}
Shapes == {"exact", "short", "long", "dirty"}

\* Attestation timestamps relative to the block time: exactly at the age limit, one second past it, a millisecond stamp of an attestation one second
\* past the limit, and the largest word.
Timestamps ==
    {now - MAX_ATTESTATION_AGE, now - MAX_ATTESTATION_AGE - 1,
     1000 * (now - MAX_ATTESTATION_AGE - 1), WordMax}

\* An attestation made in the very second of the block is submitted for one
\* choice of attestor and packed hash.
FreshStamps(a, ph) == IF a = Attestor1 /\ ph = HashOf(3) THEN {now} ELSE {}

Attestors == {Attestor1, Attestor2}

\* Arrays of the wrong length or with dirty byte slots are submitted for one
\* choice of attestor and timestamp, arrays of the exact layout for all.
ShapesFor(a, t) ==
    IF a = Attestor1 /\ t = now - MAX_ATTESTATION_AGE THEN Shapes ELSE {"exact"}

\* updatePrice has no access control: the owner and a stranger both submit for
\* one choice of proof, attestor and timestamp, a stranger alone for the others.
SendersFor(ok, a, t) ==
    IF ok /\ a = Attestor1 /\ t = now - MAX_ATTESTATION_AGE THEN Accounts
    ELSE {Stranger}

(***************************************************************************)
(* Attestation encoding and signature verification (src/lib/encoding.ts).  *)
(*                                                                         *)
(* A JavaScript string is the sequence of its character codes (ASCII, so   *)
(* its UTF-8 bytes are the same codes).  Binary data (what solidityPack    *)
(* returns, as a hex string in the code) is a sequence of cells: [b |-> n] *)
(* is the byte n, [h |-> m, width |-> 32] is the 32 bytes of the           *)
(* Keccak-256 digest of the cell sequence m.  Keccak-256 is taken to be    *)
(* collision-free, and ECDSA recovery with a digest other than the signed  *)
(* one to yield an address unrelated to the signer's.                      *)
(***************************************************************************)
Undefined == [type |-> "undefined"]

\* String.prototype.toLowerCase on ASCII.
ToLowerChar(c) == IF c \in 65..90 THEN c + 32 ELSE c
toLowerCase(str) == [i \in 1..Len(str) |-> ToLowerChar(str[i])]
ToUpperChar(c) == IF c \in 97..122 THEN c - 32 ELSE c
toUpperCase(str) == [i \in 1..Len(str) |-> ToUpperChar(str[i])]

IsHexChar(c) == c \in (48..57) \cup (65..70) \cup (97..102)
HexVal(c) == IF c \in 48..57 THEN c - 48 ELSE IF c \in 97..102 THEN c - 87 ELSE c - 55
HexDigit(n) == IF n < 10 THEN 48 + n ELSE 87 + n

\* ethers.utils.hexlify of a byte sequence: "0x" and two lower-case digits a byte.
hexlify(bytes) ==
    <<48, 120>> \o
    [i \in 1..(2 * Len(bytes)) |->
        HexDigit(IF i % 2 = 1 THEN bytes[(i + 1) \div 2] \div 16
                 ELSE bytes[i \div 2] % 16)]

\* The EIP-55 checksum casing of a lower-case address string.  Which letters are
\* raised depends on a Keccak digest of the string; the model raises the letters
\* at the positions a stand-in for that digest selects.
ChecksumCase(lower) ==
    [i \in 1..Len(lower) |->
        IF i > 2 /\ (HexVal(lower[i]) + i) % 2 = 0 THEN ToUpperChar(lower[i])
        ELSE lower[i]]

\* ethers.utils.getAddress accepts 0x + 40 hex digits, all of one case or with the
\* checksum casing.
IsAddressString(str) ==
    /\ Len(str) = 42
    /\ str[1] = 48 /\ str[2] = 120
    /\ \A i \in 3..42 : IsHexChar(str[i])
    /\ \/ str = toLowerCase(str)
       \/ SubSeq(str, 3, 42) = SubSeq(toUpperCase(str), 3, 42)
       \/ str = ChecksumCase(toLowerCase(str))

\* The 20 bytes of an address string.
AddressBytes(str) ==
    [i \in 1..20 |-> 16 * HexVal(str[2 * i + 1]) + HexVal(str[2 * i + 2])]

ByteCells(bytes) == [i \in 1..Len(bytes) |-> [b |-> bytes[i]]]

\* ethers.utils.keccak256
keccak256(data) == [h |-> data, width |-> 32]

\* solidityPack, one operator per type.
PackString(str) == ByteCells(str)
PackBytes(data) == data
PackBytes32(digest) == <<digest>>
PackAddress(str) == ByteCells(AddressBytes(str))
RECURSIVE BigEndian(_, _)
\* The n low-order bytes of v, most significant first.
BigEndian(v, n) == IF n = 0 THEN <<>> ELSE BigEndian(v \div 256, n - 1) \o <<v % 256>>
PackUint64(n) == ByteCells(BigEndian(n, 8))

\* A bug: the header is left out of the packed bytes.
encodeRequest_NoHeader(request) ==
    keccak256(PackString(request.url) \o
              PackString(request.method) \o PackString(request.body))

\* export function encodeRequest(request: AttestationRequest)
encodeRequest(request) ==
    keccak256(PackString(request.url) \o PackString(request.header) \o
              PackString(request.method) \o PackString(request.body))

RECURSIVE EncodeResponseLoop_NoCarry(_, _, _)
\* A bug: each iteration packs its entry alone and drops what came before.
EncodeResponseLoop_NoCarry(response, k, data) ==
    IF k > Len(response) THEN data
    ELSE EncodeResponseLoop_NoCarry(response, k + 1,
             PackString(response[k].keyName) \o
             PackString(response[k].parseType) \o PackString(response[k].parsePath))

RECURSIVE EncodeResponseLoop(_, _, _)
\* for (const r of response) data = solidityPack(["bytes","string","string","string"],
\*                                               [data, r.keyName, r.parseType, r.parsePath])
EncodeResponseLoop(response, k, data) ==
    IF k > Len(response) THEN data
    ELSE EncodeResponseLoop(response, k + 1,
             PackBytes(data) \o PackString(response[k].keyName) \o
             PackString(response[k].parseType) \o PackString(response[k].parsePath))

\* A bug: only the number of entries is hashed.
encodeResponse_CountOnly(response) == keccak256(ByteCells(<<Len(response)>>))

\* export function encodeResponse(response: ResponseResolve[])
encodeResponse(response) == keccak256(EncodeResponseLoop(response, 1, <<>>))

\* solidityPack throws on an address that getAddress rejects.
EncodeThrows(a) == ~IsAddressString(a.recipient)

\* A bug: attConditions is left out of the packed bytes.
encodeAttestation_NoConditions(a) ==
    keccak256(PackAddress(a.recipient) \o
              PackBytes32(encodeRequest(a.request)) \o
              PackBytes32(encodeResponse(a.reponseResolve)) \o
              PackString(a.data) \o
              PackUint64(a.timestamp) \o PackString(a.additionParams))

\* export function encodeAttestation(att: Attestation)
encodeAttestation(a) ==
    keccak256(PackAddress(a.recipient) \o
              PackBytes32(encodeRequest(a.request)) \o
              PackBytes32(encodeResponse(a.reponseResolve)) \o
              PackString(a.data) \o PackString(a.attConditions) \o
              PackUint64(a.timestamp) \o PackString(a.additionParams))

\* ethers.toUtf8Bytes of an ASCII string, and ethers.concat of byte arrays.
toUtf8Bytes(str) == ByteCells(str)
RECURSIVE concat(_)
concat(arrays) == IF arrays = <<>> THEN <<>> ELSE Head(arrays) \o concat(Tail(arrays))

RECURSIVE ResponseDataLoop(_, _, _)
\* for (const r of att.reponseResolve) responseData = ethers.concat([responseData, ...])
ResponseDataLoop(response, k, responseData) ==
    IF k > Len(response) THEN responseData
    ELSE ResponseDataLoop(response, k + 1,
             concat(<<responseData, toUtf8Bytes(response[k].keyName),
                      toUtf8Bytes(response[k].parseType),
                      toUtf8Bytes(response[k].parsePath)>>))

\* function encodeAttestationHash(att) of the integration test
encodeAttestationHash(a) ==
    LET requestHash == keccak256(PackString(a.request.url) \o
                                 PackString(a.request.header) \o
                                 PackString(a.request.method) \o
                                 PackString(a.request.body))
        responseHash == keccak256(ResponseDataLoop(a.reponseResolve, 1, <<>>))
    IN  keccak256(PackAddress(a.recipient) \o PackBytes32(requestHash) \o
                  PackBytes32(responseHash) \o PackString(a.data) \o
                  PackString(a.attConditions) \o PackUint64(a.timestamp) \o
                  PackString(a.additionParams))

\* A signature string: malformed, or the 65 bytes a key produced over a digest.
Sign(key, digest) ==
    [type |-> "signature", wellFormed |-> TRUE, signer |-> key, digest |-> digest]
MalformedSignature ==
    [type |-> "signature", wellFormed |-> FALSE, signer |-> 0, digest |-> Undefined]

\* The address string of a key pair, lower case.
KeyAddress(key) == hexlify(AddressOf(key))
\* What recovery yields for a digest the signature was not made over.
UnrelatedAddress == hexlify(AddressOf(15))

\* ethers.utils.recoverAddress(digest, signature): throws on a missing or
\* malformed signature, else returns the checksum-cased recovered address.
RecoverThrows(signature) == signature = Undefined \/ ~signature.wellFormed
recoverAddress(digest, signature) ==
    IF signature.digest = digest THEN ChecksumCase(KeyAddress(signature.signer))
    ELSE ChecksumCase(UnrelatedAddress)

\* array[0] in JavaScript.
First(array) == IF Len(array) = 0 THEN Undefined ELSE array[1]

Threw == [threw |-> TRUE, valid |-> FALSE, recoveredAddress |-> <<>>,
          expectedAddress |-> <<>>]
NotRun == [threw |-> FALSE, valid |-> FALSE, recoveredAddress |-> <<>>,
           expectedAddress |-> <<>>, notRun |-> TRUE]

\* A bug: the two address strings are compared as they are spelled.
verifyAttestationSignature_CaseSensitive(a) ==
    IF EncodeThrows(a) THEN Threw
    ELSE IF RecoverThrows(First(a.signatures)) THEN Threw
    ELSE IF First(a.attestors) = Undefined THEN Threw
    ELSE LET msgHash == encodeAttestation(a)
             recoveredAddress == recoverAddress(msgHash, First(a.signatures))
             expectedAddress == First(a.attestors).attestorAddr
         IN  [threw |-> FALSE,
              valid |-> recoveredAddress = expectedAddress,
              recoveredAddress |-> recoveredAddress,
              expectedAddress |-> expectedAddress]

\* export function verifyAttestationSignature(att: Attestation)
verifyAttestationSignature(a) ==
    IF EncodeThrows(a) THEN Threw
    ELSE IF RecoverThrows(First(a.signatures)) THEN Threw
    ELSE IF First(a.attestors) = Undefined THEN Threw
    ELSE LET msgHash == encodeAttestation(a)
             recoveredAddress == recoverAddress(msgHash, First(a.signatures))
             expectedAddress == First(a.attestors).attestorAddr
         IN  [threw |-> FALSE,
              valid |-> toLowerCase(recoveredAddress) = toLowerCase(expectedAddress),
              recoveredAddress |-> recoveredAddress,
              expectedAddress |-> expectedAddress]

NoAttestation == [type |-> "none"]

(***************************************************************************)
(* The attestations handed to the verifier: records signed by an attestor  *)
(* of the network, and what a relaying party can change in them.           *)
(***************************************************************************)
\* "GET", "u", "k", "$", "2821", "9999", "c", "p"
StrGET == <<71, 69, 84>>
StrUrl == <<117>>
StrKey == <<107>>
StrPath == <<36>>
StrData1 == <<50, 56, 50, 49>>
StrData2 == <<57, 57, 57, 57>>
StrCond == <<99>>
StrParams == <<112>>

AttestorKeys == {3, 4}
DataValues == {StrData1, StrData2}
TimestampValues == {1769730, 1234567}
Resolve1 == [keyName |-> StrKey, parseType |-> <<>>, parsePath |-> StrPath]
Resolve2 == [keyName |-> StrPath, parseType |-> <<>>, parsePath |-> StrKey]
ResolveLists == {<<Resolve1>>, <<Resolve1, Resolve2>>}

Unsigned(data, timestamp, resolves, key) ==
    [recipient |-> hexlify(ZeroAddress),
     request |-> [url |-> StrUrl, header |-> <<>>, method |-> StrGET, body |-> <<>>],
     reponseResolve |-> resolves,
     data |-> data,
     attConditions |-> StrCond,
     timestamp |-> timestamp,
     additionParams |-> StrParams,
     attestors |-> <<[attestorAddr |-> KeyAddress(key), url |-> StrUrl]>>,
     signatures |-> <<>>]

\* The attestor with the given key signs the digest of the record.
SignedBy(key, a) == [a EXCEPT !.signatures = <<Sign(key, encodeAttestation(a))>>]

SignedAttestations ==
    {SignedBy(k, Unsigned(d, t, rs, k)) :
        d \in DataValues, t \in TimestampValues, rs \in ResolveLists,
        k \in AttestorKeys}

\* The spellings of attestor addresses a record can carry.
AttestorSpellings ==
    UNION {{KeyAddress(k), ChecksumCase(KeyAddress(k)),
            <<48, 120>> \o SubSeq(toUpperCase(KeyAddress(k)), 3, 42)} :
           k \in AttestorKeys}

Pending == sigResult = NotRun /\ att # NoAttestation

TamperData(d) ==
    /\ Pending
    /\ d # att.data
    /\ att' = [att EXCEPT !.data = d]
    /\ UNCHANGED <<signedAtt, sigResult>>
    /\ UNCHANGED notSigVars

TamperTimestamp(t) ==
    /\ Pending
    /\ t # att.timestamp
    /\ att' = [att EXCEPT !.timestamp = t]
    /\ UNCHANGED <<signedAtt, sigResult>>
    /\ UNCHANGED notSigVars

SubstituteAttestor(addr) ==
    /\ Pending
    /\ Len(att.attestors) > 0
    /\ addr # att.attestors[1].attestorAddr
    /\ att' = [att EXCEPT !.attestors = <<[attestorAddr |-> addr, url |-> StrUrl]>>]
    /\ UNCHANGED <<signedAtt, sigResult>>
    /\ UNCHANGED notSigVars

ReplaceSignatures(sigs) ==
    /\ Pending
    /\ sigs # att.signatures
    /\ att' = [att EXCEPT !.signatures = sigs]
    /\ UNCHANGED <<signedAtt, sigResult>>
    /\ UNCHANGED notSigVars

DropAttestors ==
    /\ Pending
    /\ att.attestors # <<>>
    /\ att' = [att EXCEPT !.attestors = <<>>]
    /\ UNCHANGED <<signedAtt, sigResult>>
    /\ UNCHANGED notSigVars

ClearRecipient ==
    /\ Pending
    /\ att.recipient # <<>>
    /\ att' = [att EXCEPT !.recipient = <<>>]
    /\ UNCHANGED <<signedAtt, sigResult>>
    /\ UNCHANGED notSigVars

\* const sigResult = verifyAttestationSignature(att)
Verify ==
    /\ Pending
    /\ sigResult' = verifyAttestationSignature(att)
    /\ UNCHANGED <<att, signedAtt>>
    /\ UNCHANGED notSigVars

InitOracle ==
    /\ deployed = FALSE
    /\ verifier = ZeroAddress
    /\ trustedAttestor = ZeroAddress
    /\ owner = ZeroAddress
    /\ pendingAttestorChange = NoPending
    /\ usedProofHashes = {}
    /\ latestPrice = NoPrice
    /\ now = GenesisTime
    /\ ticks = 0
    /\ successCount = <<>>
    /\ proposal = NoProposal
    /\ lastCall = NoCall

\* The library variables of a specification that does not exercise them.
NotEncoded == [ran |-> FALSE]
NoField == [kind |-> "none"]
IdleSig == att = NoAttestation /\ signedAtt = NoAttestation /\ sigResult = NotRun
IdleEnc == recA = NoAttestation /\ recB = NoAttestation /\ encOut = NotEncoded
IdlePack == packIn = NoField /\ packed = NoField /\ unpacked = NoField
IdlePrice == priceIn = NoField /\ priceOut = NoField /\ scriptOut = NoField

Init ==
    /\ InitOracle
    /\ IdleSig
    /\ IdleEnc
    /\ IdlePack
    /\ IdlePrice

Next ==
    \/ \E v \in {ZeroAddress, VerifierAddr}, a \in {ZeroAddress, Attestor1} :
           constructor(Deployer, v, a)
    \/ \E ok \in BOOLEAN, a \in Attestors, p \in Prices,
          rh \in ResponseHashes, ph \in PackedHashes :
           \E t \in Timestamps \cup FreshStamps(a, ph) :
               \E s \in SendersFor(ok, a, t), sh \in ShapesFor(a, t) :
                   updatePrice(s, ok, Shaped(PackInputs(a, p, t, rh, ph), sh))
    \/ \E s \in Accounts, a \in {ZeroAddress} \cup Attestors :
           proposeAttestor(s, a)
    \/ \E s \in Accounts : executeAttestorChange(s)
    \/ \E s \in Accounts : cancelAttestorChange(s)
    \/ \E s \in Accounts, o \in {ZeroAddress} \cup Accounts :
           transferOwnership(s, o)
    \/ \E d \in TimeSteps : Tick(d)
    \/ Settle

Spec == Init /\ [][Next]_vars

InitSig ==
    /\ InitOracle
    /\ att \in SignedAttestations
    /\ signedAtt = att
    /\ sigResult = NotRun
    /\ IdleEnc
    /\ IdlePack
    /\ IdlePrice

NextSig ==
    \/ \E d \in DataValues : TamperData(d)
    \/ \E t \in TimestampValues : TamperTimestamp(t)
    \/ \E a \in AttestorSpellings \cup {<<>>} : SubstituteAttestor(a)
    \/ \E sigs \in {<<>>, <<MalformedSignature>>} : ReplaceSignatures(sigs)
    \/ DropAttestors
    \/ ClearRecipient
    \/ Verify

SpecSig == InitSig /\ [][NextSig]_vars

(***************************************************************************)
(* The encoder applied to two records: recA, and recB which starts equal   *)
(* to recA and has its fields replaced one at a time.                      *)
(***************************************************************************)
\* "a", "b", "ab", "2", "8", "28", "POST"
StrA == <<97>>
StrB == <<98>>
StrAB == <<97, 98>>
Str2 == <<50>>
Str8 == <<56>>
Str28 == <<50, 56>>
StrPOST == <<80, 79, 83, 84>>

EncRecipients == {hexlify(AddressOf(1)), ChecksumCase(hexlify(AddressOf(1))),
                  hexlify(AddressOf(2))}
EncUrls == {StrA, StrAB}
EncHeaders == {<<>>, StrB}
EncMethods == {StrGET, StrPOST}
EncBodies == {<<>>, StrB}
EncData == {Str2, Str28}
EncConditions == {<<>>, Str8}
EncParams == {<<>>, StrParams}
EntryAB == [keyName |-> StrA, parseType |-> <<>>, parsePath |-> StrB]
EntrySplit == [keyName |-> <<>>, parseType |-> StrA, parsePath |-> StrB]
EntryBA == [keyName |-> StrB, parseType |-> <<>>, parsePath |-> StrA]
EntryBB == [keyName |-> StrB, parseType |-> <<>>, parsePath |-> StrB]
EncEntries == {EntryAB, EntrySplit, EntryBA, EntryBB}
EncResolveLists == {<<>>, <<EntryAB>>, <<EntryAB, EntryBA>>, <<EntryAB, EntrySplit>>}

EncRecord(resolves) ==
    [recipient |-> hexlify(AddressOf(1)),
     request |-> [url |-> StrAB, header |-> <<>>, method |-> StrGET, body |-> <<>>],
     reponseResolve |-> resolves,
     data |-> Str28,
     attConditions |-> <<>>,
     timestamp |-> 1769730,
     additionParams |-> StrParams,
     attestors |-> <<>>,
     signatures |-> <<>>]

\* The caller replaces one field of recB; what was encoded before is out of date.
Replace(record) ==
    /\ record # recB
    /\ recB' = record
    /\ encOut' = NotEncoded
    /\ UNCHANGED <<recA, notEncVars>>

SetRecipient(r) == Replace([recB EXCEPT !.recipient = r])
SetUrl(u) == Replace([recB EXCEPT !.request.url = u])
SetHeader(h) == Replace([recB EXCEPT !.request.header = h])
SetMethod(m) == Replace([recB EXCEPT !.request.method = m])
SetBody(b) == Replace([recB EXCEPT !.request.body = b])
SetResolve(i, e) ==
    /\ i \in 1..Len(recB.reponseResolve)
    /\ Replace([recB EXCEPT !.reponseResolve[i] = e])
SetData(d) == Replace([recB EXCEPT !.data = d])
SetAttConditions(c) == Replace([recB EXCEPT !.attConditions = c])
SetTimestamp(t) == Replace([recB EXCEPT !.timestamp = t])
SetAdditionParams(p) == Replace([recB EXCEPT !.additionParams = p])

\* What a caller gets from the three exported encoders and from the test's
\* reference encoder.
Encoded(a) ==
    IF EncodeThrows(a) THEN [threw |-> TRUE]
    ELSE [threw |-> FALSE,
          request |-> encodeRequest(a.request),
          response |-> encodeResponse(a.reponseResolve),
          digest |-> encodeAttestation(a),
          reference |-> encodeAttestationHash(a)]

Encode ==
    /\ encOut = NotEncoded
    /\ encOut' = [ran |-> TRUE, a |-> Encoded(recA), b |-> Encoded(recB)]
    /\ UNCHANGED <<recA, recB, notEncVars>>

InitEnc ==
    /\ InitOracle
    /\ IdleSig
    /\ IdlePack
    /\ IdlePrice
    /\ recA \in {EncRecord(rs) : rs \in EncResolveLists}
    /\ recB = recA
    /\ encOut = NotEncoded

NextEnc ==
    \/ \E r \in EncRecipients : SetRecipient(r)
    \/ \E u \in EncUrls : SetUrl(u)
    \/ \E h \in EncHeaders : SetHeader(h)
    \/ \E m \in EncMethods : SetMethod(m)
    \/ \E b \in EncBodies : SetBody(b)
    \/ \E i \in 1..2, e \in EncEntries : SetResolve(i, e)
    \/ \E d \in EncData : SetData(d)
    \/ \E c \in EncConditions : SetAttConditions(c)
    \/ \E t \in TimestampValues : SetTimestamp(t)
    \/ \E p \in EncParams : SetAdditionParams(p)
    \/ Encode

SpecEnc == InitEnc /\ [][NextEnc]_vars

(***************************************************************************)
(* The price library (u64ToBytes, bytesToU64) and the packer of circuit    *)
(* inputs (hexToArray).                                                    *)
(*                                                                         *)
(* A JavaScript number or BigInt that may exceed the integers of the model *)
(* is written by its digits: mag is the 9 big-endian base-256 digits of    *)
(* the integer part of its magnitude (values up to 2^72 - 1), neg its sign,*)
(* int whether it is an integer, nan whether it is NaN.  An entry of a     *)
(* number[] is an integer of the model, NaN a value outside what parseInt  *)
(* returns on two characters.                                              *)
(***************************************************************************)
JsNumber(neg, int, mag) == [nan |-> FALSE, neg |-> neg, int |-> int, mag |-> mag]
JsInt(mag) == JsNumber(FALSE, TRUE, mag)
JsNaN == [nan |-> TRUE, neg |-> FALSE, int |-> FALSE, mag |-> ZeroBytes(9)]
\* The digits of the BigInt whose 8 big-endian bytes are given.
Digits(bytes) == <<0>> \o bytes

\* Number.MAX_SAFE_INTEGER = 2^53 - 1
MAX_SAFE_INTEGER == <<0, 0, 31, 255, 255, 255, 255, 255, 255>>

\* a < b on digits of the same length
DigitsLess(a, b) ==
    \E i \in 1..Len(a) : a[i] < b[i] /\ \A j \in 1..(i - 1) : a[j] = b[j]
\* value < 0 and value > Number.MAX_SAFE_INTEGER; both are false of NaN and the
\* first is false of -0.
LessThanZero(value) ==
    ~value.nan /\ value.neg /\ (~value.int \/ value.mag # ZeroBytes(9))
GreaterThanMaxSafe(value) ==
    ~value.nan /\ ~value.neg /\ DigitsLess(MAX_SAFE_INTEGER, value.mag)
\* BigInt(value) throws a RangeError unless value is an integer.
BigIntThrows(value) == value.nan \/ ~value.int
BigInt(value) == value.mag

\* v & 0xFFn and v >> 8n
AndFF(v) == v[Len(v)]
Shr8(v) == <<0>> \o SubSeq(v, 1, Len(v) - 1)
\* (value << 8n) | BigInt(b); the digit shifted out is 0 for up to 8 bytes
Shl8OrBig(value, b) == Tail(value) \o <<b>>

\* Number(value) of a BigInt below 2^64: the nearest double, ties to even.  A
\* double keeps the 53 bits from the leading one on.
BitsOf(digits) ==
    [i \in 1..(8 * Len(digits)) |->
        (digits[((i - 1) \div 8) + 1] \div (2 ^ (7 - ((i - 1) % 8)))) % 2]
DigitsOf(bits) ==
    [j \in 1..(Len(bits) \div 8) |->
        128 * bits[8 * j - 7] + 64 * bits[8 * j - 6] + 32 * bits[8 * j - 5] +
        16 * bits[8 * j - 4] + 8 * bits[8 * j - 3] + 4 * bits[8 * j - 2] +
        2 * bits[8 * j - 1] + bits[8 * j]]
Number(big) ==
    LET bits == BitsOf(big)
        n == Len(bits)
        ones == {i \in 1..n : bits[i] = 1}
        first == CHOOSE i \in ones : \A j \in ones : i <= j
        last == first + 52
        roundUp == /\ bits[last + 1] = 1
                   /\ bits[last] = 1 \/ \E i \in (last + 2)..n : bits[i] = 1
        kept == [i \in 1..n |-> IF i <= last THEN bits[i] ELSE 0]
        zeros == {i \in 1..last : kept[i] = 0}
        carry == CHOOSE i \in zeros : \A j \in zeros : j <= i
        up == [i \in 1..n |-> IF i < carry THEN kept[i] ELSE IF i = carry THEN 1 ELSE 0]
    IN  IF ones = {} THEN JsInt(big)
        ELSE IF last >= n THEN JsInt(big)
        ELSE JsInt(DigitsOf(IF roundUp THEN up ELSE kept))

RECURSIVE U64Loop_Push(_, _, _)
U64Loop_Push(i, v, bytes) ==
    IF i >= 8 THEN bytes ELSE U64Loop_Push(i + 1, Shr8(v), bytes \o <<AndFF(v)>>)

RECURSIVE U64Loop(_, _, _)
\* for (let i = 0; i < 8; i++) { bytes.unshift(Number(v & 0xFFn)); v >>= 8n; }
U64Loop(i, v, bytes) ==
    IF i >= 8 THEN bytes ELSE U64Loop(i + 1, Shr8(v), <<AndFF(v)>> \o bytes)

\* A bug: the bytes are pushed, least significant first.
u64ToBytes_LittleEndian(value) ==
    IF LessThanZero(value) \/ GreaterThanMaxSafe(value)
    THEN [threw |-> "out of u64 range", bytes |-> <<>>]
    ELSE IF BigIntThrows(value) THEN [threw |-> "RangeError", bytes |-> <<>>]
    ELSE [threw |-> "none", bytes |-> U64Loop_Push(0, BigInt(value), <<>>)]

\* export function u64ToBytes(value: number): number[]
u64ToBytes(value) ==
    IF LessThanZero(value) \/ GreaterThanMaxSafe(value)
    THEN [threw |-> "out of u64 range", bytes |-> <<>>]
    ELSE IF BigIntThrows(value) THEN [threw |-> "RangeError", bytes |-> <<>>]
    ELSE [threw |-> "none", bytes |-> U64Loop(0, BigInt(value), <<>>)]

RECURSIVE BytesLoop(_, _, _)
\* for (const b of bytes) value = (value << 8n) | BigInt(b)
BytesLoop(bytes, k, value) ==
    IF k > Len(bytes) THEN value
    ELSE BytesLoop(bytes, k + 1, Shl8OrBig(value, bytes[k]))

\* export function bytesToU64(bytes: number[]): number
bytesToU64(bytes) ==
    IF Len(bytes) # 8 THEN [threw |-> "Expected 8 bytes", value |-> JsNaN]
    ELSE [threw |-> "none", value |-> Number(BytesLoop(bytes, 1, ZeroBytes(9)))]

\* NaN as an entry of a number[]
NaN == 999

IsSpace(c) == c \in {9, 10, 11, 12, 13, 32}
RECURSIVE TrimStart(_)
TrimStart(str) ==
    IF str # <<>> /\ IsSpace(Head(str)) THEN TrimStart(Tail(str)) ELSE str
RECURSIVE ParseDigits(_, _)
ParseDigits(str, acc) ==
    IF str = <<>> \/ ~IsHexChar(Head(str)) THEN acc
    ELSE ParseDigits(Tail(str), 16 * acc + HexVal(Head(str)))
\* parseInt(str, 16): leading white space, a sign and 0x are skipped, then the
\* longest run of hex digits is read; NaN if there is none.
parseInt(str) ==
    LET t == TrimStart(str)
        signed == t # <<>> /\ Head(t) \in {43, 45}
        sign == IF t # <<>> /\ Head(t) = 45 THEN 0 - 1 ELSE 1
        u == IF signed THEN Tail(t) ELSE t
        d == IF Len(u) >= 2 /\ u[1] = 48 /\ u[2] \in {88, 120}
             THEN SubSeq(u, 3, Len(u)) ELSE u
    IN  IF d = <<>> \/ ~IsHexChar(Head(d)) THEN NaN ELSE sign * ParseDigits(d, 0)

\* hex.startsWith('0x') ? hex.slice(2) : hex
Strip0x(hex) ==
    IF Len(hex) >= 2 /\ hex[1] = 48 /\ hex[2] = 120 THEN SubSeq(hex, 3, Len(hex))
    ELSE hex
\* h.substr(i, 2), i counted from 0
substr2(h, i) == SubSeq(h, i + 1, IF i + 2 <= Len(h) THEN i + 2 ELSE Len(h))
RECURSIVE HexLoop(_, _, _)
\* for (let i = 0; i < h.length; i += 2) arr.push(parseInt(h.substr(i, 2), 16))
HexLoop(h, i, arr) ==
    IF i >= Len(h) THEN arr
    ELSE HexLoop(h, i + 2, arr \o <<parseInt(substr2(h, i))>>)

\* function hexToArray(hex: string): number[]; hex.startsWith throws a TypeError
\* when hex is undefined.
hexToArray(field) ==
    IF field.missing THEN [threw |-> "TypeError", array |-> <<>>]
    ELSE [threw |-> "none", array |-> HexLoop(Strip0x(field.hex), 0, <<>>)]

(***************************************************************************)
(* The fields handed to the packer, and what is read back from the slots.  *)
(* packed holds the outcome of the first conversion of packIn, unpacked    *)
(* the outcome of the inverse conversion applied to it.                    *)
(***************************************************************************)
HexField(kind, hex, slots) ==
    [kind |-> kind, missing |-> FALSE, hex |-> hex, slots |-> slots]
MissingField(kind, slots) ==
    [kind |-> kind, missing |-> TRUE, hex |-> <<>>, slots |-> slots]
PriceField(value) == [kind |-> "price", value |-> value]
BytesField(bytes) == [kind |-> "bytes", bytes |-> bytes]

\* Address strings: 20 bytes in lower case, with the checksum casing and without
\* 0x; then 2 bytes, 21 bytes, an odd number of digits, a letter that is no hex
\* digit in the first and in the second place of a pair, and the empty string.
PackKeys == 1..8
WithZ(hex, i) == [hex EXCEPT ![i] = 122]
AddressHexes ==
    {hexlify(AddressOf(k)) : k \in PackKeys} \cup
    {ChecksumCase(hexlify(AddressOf(k))) : k \in PackKeys} \cup
    {Strip0x(hexlify(AddressOf(1))),
     hexlify(<<18, 52>>),
     hexlify(AddressOf(1) \o <<7>>),
     SubSeq(hexlify(AddressOf(1)), 1, 41),
     WithZ(hexlify(AddressOf(1)), 3),
     WithZ(hexlify(AddressOf(1)), 4),
     <<>>}
HashHexes ==
    {hexlify(HashOf(k)) : k \in 1..4} \cup
    {hexlify(SubSeq(HashOf(1), 1, 31)),
     hexlify(HashOf(1) \o <<7>>),
     SubSeq(hexlify(HashOf(1)), 1, 65),
     WithZ(hexlify(HashOf(1)), 3)}

\* Prices: 0, -0, 255, 2821410000, 2^53 - 1, 2^53, 2^53 + 2, 2^64 - 2048, 2^64,
\* -1, -0.5, 1.5 and NaN.
PriceValues ==
    {JsInt(ZeroBytes(9)),
     JsNumber(TRUE, TRUE, ZeroBytes(9)),
     JsInt(<<0, 0, 0, 0, 0, 0, 0, 0, 255>>),
     JsInt(<<0, 0, 0, 0, 0, 168, 43, 76, 208>>),
     JsInt(MAX_SAFE_INTEGER),
     JsInt(<<0, 0, 32, 0, 0, 0, 0, 0, 0>>),
     JsInt(<<0, 0, 32, 0, 0, 0, 0, 0, 2>>),
     JsInt(<<0, 255, 255, 255, 255, 255, 255, 248, 0>>),
     JsInt(<<1, 0, 0, 0, 0, 0, 0, 0, 0>>),
     JsNumber(TRUE, TRUE, <<0, 0, 0, 0, 0, 0, 0, 0, 1>>),
     JsNumber(TRUE, FALSE, ZeroBytes(9)),
     JsNumber(FALSE, FALSE, <<0, 0, 0, 0, 0, 0, 0, 0, 1>>),
     JsNaN}

\* Byte arrays: 0, 255, 2821410000, 2^53 - 1, 2^53, 2^53 + 1, 2^53 + 3,
\* 0x0102030405060708, 2^64 - 1, and arrays of 2 and of 9 bytes.
ByteArrays ==
    {ZeroBytes(8),
     <<0, 0, 0, 0, 0, 0, 0, 255>>,
     <<0, 0, 0, 0, 168, 43, 76, 208>>,
     <<0, 31, 255, 255, 255, 255, 255, 255>>,
     <<0, 32, 0, 0, 0, 0, 0, 0>>,
     <<0, 32, 0, 0, 0, 0, 0, 1>>,
     <<0, 32, 0, 0, 0, 0, 0, 3>>,
     <<1, 2, 3, 4, 5, 6, 7, 8>>,
     <<255, 255, 255, 255, 255, 255, 255, 255>>,
     <<1, 2>>,
     ZeroBytes(9)}

PackFields ==
    {HexField("address", h, 20) : h \in AddressHexes} \cup
    {HexField("hash", h, 32) : h \in HashHexes} \cup
    {MissingField("address", 20), MissingField("hash", 32)} \cup
    {PriceField(v) : v \in PriceValues} \cup
    {BytesField(b) : b \in ByteArrays}

Converted == packed # NoField
Produced == Converted /\ packed.threw = "none"

\* const attestorAddr = hexToArray(att.attestors[0].attestorAddr), and
\* hexToArray(msgHash) and the like.
PackHex ==
    /\ packIn.kind \in {"address", "hash"}
    /\ ~Converted
    /\ packed' = hexToArray(packIn)
    /\ UNCHANGED <<packIn, unpacked, notPackVars>>

\* const bytes = u64ToBytes(u64)
PackPrice ==
    /\ packIn.kind = "price"
    /\ ~Converted
    /\ packed' = u64ToBytes(packIn.value)
    /\ UNCHANGED <<packIn, unpacked, notPackVars>>

ReadBytes ==
    /\ packIn.kind = "bytes"
    /\ ~Converted
    /\ packed' = bytesToU64(packIn.bytes)
    /\ UNCHANGED <<packIn, unpacked, notPackVars>>

\* The entries become public-input slots, one each; the proving step takes
\* entries in 0..255 only.
AllBytes(array) == \A i \in 1..Len(array) : array[i] \in 0..255
Extracted(publicInputs, n) ==
    IF OutOfBounds(publicInputs, 0, n) THEN [threw |-> "Panic", value |-> <<>>]
    ELSE [threw |-> "none",
          value |-> IF n = 20 THEN _extractAddress(publicInputs, 0)
                    ELSE _extractBytes32(publicInputs, 0)]

UnpackAddress ==
    /\ packIn.kind = "address"
    /\ Produced /\ AllBytes(packed.array)
    /\ unpacked = NoField
    /\ unpacked' = Extracted(packed.array, 20)
    /\ UNCHANGED <<packIn, packed, notPackVars>>

UnpackBytes32 ==
    /\ packIn.kind = "hash"
    /\ Produced /\ AllBytes(packed.array)
    /\ unpacked = NoField
    /\ unpacked' = Extracted(packed.array, 32)
    /\ UNCHANGED <<packIn, packed, notPackVars>>

UnpackPrice ==
    /\ packIn.kind = "price"
    /\ Produced
    /\ unpacked = NoField
    /\ unpacked' = bytesToU64(packed.bytes)
    /\ UNCHANGED <<packIn, packed, notPackVars>>

WriteBack ==
    /\ packIn.kind = "bytes"
    /\ Produced
    /\ unpacked = NoField
    /\ unpacked' = u64ToBytes(packed.value)
    /\ UNCHANGED <<packIn, packed, notPackVars>>

InitPack ==
    /\ InitOracle
    /\ IdleSig
    /\ IdleEnc
    /\ IdlePrice
    /\ packIn \in PackFields
    /\ packed = NoField
    /\ unpacked = NoField

NextPack ==
    \/ PackHex
    \/ PackPrice
    \/ ReadBytes
    \/ UnpackAddress
    \/ UnpackBytes32
    \/ UnpackPrice
    \/ WriteBack

SpecPack == InitPack /\ [][NextPack]_vars

(***************************************************************************)
(* parsePrice of the price library (unnamed/part_003) and parsePrice of    *)
(* the script src/parse-attestation.ts.                                    *)
(*                                                                         *)
(* A JavaScript number is an IEEE 754 double.  A finite double is written  *)
(* [neg, m, e]: its sign, a significand m of exactly 53 bits (or 0) and    *)
(* the exponent e of the last bit of m, the value being m * 2^e.  m, like  *)
(* every natural number that may exceed the integers of the model, is the  *)
(* sequence of its bits, least significant first, without leading zeros    *)
(* (<<>> is 0).  The inputs stay in the range of normal doubles.           *)
(***************************************************************************)
BitAt(a, i) == IF i >= 1 /\ i <= Len(a) THEN a[i] ELSE 0
\* y, once x has been computed: a loop passes on values, not pending computations
Then(x, y) == IF x = x THEN y ELSE y
\* without leading zeros
NatTrim(a) ==
    LET ones == {i \in 1..Len(a) : a[i] = 1} IN
    IF ones = {} THEN <<>>
    ELSE SubSeq(a, 1, CHOOSE i \in ones : \A j \in ones : j <= i)
NatShl(a, n) == IF a = <<>> THEN <<>> ELSE [i \in 1..n |-> 0] \o a
NatShr(a, n) == IF n >= Len(a) THEN <<>> ELSE SubSeq(a, n + 1, Len(a))
\* a + 1
NatIncrement(a) ==
    LET zeros == {i \in 1..(Len(a) + 1) : BitAt(a, i) = 0}
        z == CHOOSE i \in zeros : \A j \in zeros : i <= j
    IN  [i \in 1..(IF z > Len(a) THEN z ELSE Len(a)) |->
            IF i < z THEN 0 ELSE IF i = z THEN 1 ELSE a[i]]

\* Multiplication and division by a small number work on limbs of 10 bits,
\* least significant first.
LimbBase == 2 ^ 10
Limbs(a) ==
    [j \in 1..((Len(a) + 9) \div 10) |->
        LET low == 10 * (j - 1) IN
        BitAt(a, low + 1) + 2 * BitAt(a, low + 2) + 4 * BitAt(a, low + 3) +
        8 * BitAt(a, low + 4) + 16 * BitAt(a, low + 5) + 32 * BitAt(a, low + 6) +
        64 * BitAt(a, low + 7) + 128 * BitAt(a, low + 8) +
        256 * BitAt(a, low + 9) + 512 * BitAt(a, low + 10)]
NatOfLimbs(limbs) ==
    NatTrim([i \in 1..(10 * Len(limbs)) |->
                (limbs[((i - 1) \div 10) + 1] \div (2 ^ ((i - 1) % 10))) % 2])

RECURSIVE LimbMulLoop(_, _, _, _)
LimbMulLoop(limbs, k, i, carry) ==
    IF i > Len(limbs)
    THEN IF carry = 0 THEN <<>>
         ELSE <<carry % LimbBase>> \o LimbMulLoop(limbs, k, i, carry \div LimbBase)
    ELSE LET t == limbs[i] * k + carry IN
         Then(t, <<t % LimbBase>> \o LimbMulLoop(limbs, k, i + 1, t \div LimbBase))
\* a * k + c for 0 <= c < k <= 10^6
NatMulAdd(a, k, c) == NatOfLimbs(LimbMulLoop(Limbs(a), k, 1, c))

RECURSIVE LimbDivLoop(_, _, _, _)
LimbDivLoop(limbs, d, i, rem) ==
    IF i < 1 THEN [quot |-> <<>>, rem |-> rem]
    ELSE LET t == rem * LimbBase + limbs[i]
             lower == LimbDivLoop(limbs, d, i - 1, t % d)
         IN  Then(t, [quot |-> lower.quot \o <<t \div d>>, rem |-> lower.rem])
\* the quotient and the remainder of a by d, 0 < d <= 10^6
NatDivMod(a, d) ==
    LET r == LimbDivLoop(Limbs(a), d, (Len(a) + 9) \div 10, 0) IN
    [quot |-> NatOfLimbs(r.quot), rem |-> r.rem]

RECURSIVE TimesPow10(_, _)
\* a * 10^k
TimesPow10(a, k) ==
    IF k = 0 THEN a
    ELSE LET b == NatMulAdd(a, 10, 0) IN Then(b, TimesPow10(b, k - 1))

RECURSIVE OverPow10(_, _, _)
\* the quotient of a by 10^k, and whether the division left a remainder
OverPow10(a, k, inexact) ==
    IF k = 0 THEN [quot |-> a, inexact |-> inexact]
    ELSE LET r == NatDivMod(a, 10) IN
         Then(r, OverPow10(r.quot, k - 1, inexact \/ r.rem # 0))

\* The 9 big-endian base-256 digits of a natural below 2^72.
NatDigits(a) ==
    [j \in 1..9 |->
        LET low == 8 * (9 - j) IN
        BitAt(a, low + 1) + 2 * BitAt(a, low + 2) + 4 * BitAt(a, low + 3) +
        8 * BitAt(a, low + 4) + 16 * BitAt(a, low + 5) + 32 * BitAt(a, low + 6) +
        64 * BitAt(a, low + 7) + 128 * BitAt(a, low + 8)]

Finite(neg, m, e) == [kind |-> "finite", neg |-> neg, m |-> m, e |-> e]
DoubleNaN == [kind |-> "nan", neg |-> FALSE, m |-> <<>>, e |-> 0]
DoubleInfinity(neg) == [kind |-> "inf", neg |-> neg, m |-> <<>>, e |-> 0]

\* The double nearest to (n / 10^scale) * 2^e, ties to the even significand:
\* n is shifted so that the quotient has 55 bits or more, 53 of them are kept,
\* and the bits dropped together with the remainder decide the rounding.
RoundToDouble(neg, n, scale, e) ==
    LET wanted == 55 + 4 * scale - Len(n)
        s == IF wanted > 0 THEN wanted ELSE 0
        Rounded(qr) ==
            LET q == qr.quot
                drop == Len(q) - 53
                kept == NatShr(q, drop)
                sticky == qr.inexact \/ \E i \in 1..(drop - 1) : q[i] = 1
                up == q[drop] = 1 /\ (sticky \/ kept[1] = 1)
                Carried(m) ==
                    IF Len(m) = 54 THEN Finite(neg, NatShr(m, 1), e - s + drop + 1)
                    ELSE Finite(neg, m, e - s + drop)
            IN  Carried(IF up THEN NatIncrement(kept) ELSE kept)
    IN  IF n = <<>> THEN Finite(neg, <<>>, 0)
        ELSE Rounded(OverPow10(NatShl(n, s), scale, FALSE))

\* const DECIMALS = 6; const MULTIPLIER = 10 ** DECIMALS
DECIMALS == 6
MULTIPLIER == 10 ^ DECIMALS

\* x * k for a double x and an integer k that a double holds exactly: the
\* exact product, rounded once.
Multiply(x, k) ==
    IF x.kind # "finite" THEN x
    ELSE RoundToDouble(x.neg, NatMulAdd(x.m, k, 0), 0, x.e)

\* The value Infinity as a number handed on: it is no integer and exceeds every
\* number it is compared with.
JsInfinity(neg) ==
    [nan |-> FALSE, neg |-> neg, int |-> FALSE, mag |-> [i \in 1..9 |-> 255]]

\* Math.round(x): the integer nearest to x, the one towards +Infinity of two
\* that are equally near (so -0.5 gives -0); NaN and the infinities as they are.
MathRound(x) ==
    LET half == x.e < 0 /\ BitAt(x.m, 0 - x.e) = 1
        below == x.e < 0 /\ \E i \in 1..(0 - x.e - 1) : BitAt(x.m, i) = 1
        up == IF x.neg THEN half /\ below ELSE half
        Nearest(whole) ==
            JsNumber(x.neg, TRUE,
                     NatDigits(IF up THEN NatIncrement(whole) ELSE whole))
    IN  IF x.kind = "nan" THEN JsNaN
        ELSE IF x.kind = "inf" THEN JsInfinity(x.neg)
        ELSE Nearest(IF x.e >= 0 THEN NatShl(x.m, x.e) ELSE NatShr(x.m, 0 - x.e))

\* Character codes.
Quote == 34
Dot == 46
IsDigit(c) == c \in 48..57
StrInfinity == <<73, 110, 102, 105, 110, 105, 116, 121>>

startsWith(str, prefix) ==
    Len(str) >= Len(prefix) /\ SubSeq(str, 1, Len(prefix)) = prefix
endsWith(str, suffix) ==
    Len(str) >= Len(suffix)
        /\ SubSeq(str, Len(str) - Len(suffix) + 1, Len(str)) = suffix
\* str.slice(1, -1)
slice1(str) == SubSeq(str, 2, Len(str) - 1)

RECURSIVE DigitRun(_)
\* the longest prefix of decimal digits
DigitRun(str) ==
    IF str # <<>> /\ IsDigit(Head(str)) THEN <<Head(str)>> \o DigitRun(Tail(str))
    ELSE <<>>
Drop(str, n) == SubSeq(str, n + 1, Len(str))

RECURSIVE DecimalNat(_, _)
\* the natural number written by a run of decimal digits
DecimalNat(digits, acc) ==
    IF digits = <<>> THEN acc
    ELSE LET next == NatMulAdd(acc, 10, Head(digits) - 48) IN
         Then(next, DecimalNat(Tail(digits), next))
RECURSIVE DecimalInt(_, _)
DecimalInt(digits, acc) ==
    IF digits = <<>> THEN acc
    ELSE DecimalInt(Tail(digits), 10 * acc + (Head(digits) - 48))

\* The exponent part at the head of str (e or E, an optional sign, digits): the
\* exponent it writes and its length, both 0 when there is none.
ExponentPart(str) ==
    LET signed == Len(str) >= 2 /\ str[2] \in {43, 45}
        Written(digits, exp) ==
            IF digits = <<>> THEN [exp |-> 0, len |-> 0]
            ELSE [exp |-> IF str[2] = 45 THEN 0 - exp ELSE exp,
                  len |-> (IF signed THEN 2 ELSE 1) + Len(digits)]
        Digits10(digits) == Written(digits, DecimalInt(digits, 0))
    IN  IF str # <<>> /\ Head(str) \in {69, 101}
        THEN Digits10(DigitRun(Drop(str, IF signed THEN 2 ELSE 1)))
        ELSE [exp |-> 0, len |-> 0]

\* The longest prefix of str that is a decimal literal (StrDecimalLiteral of
\* ECMAScript: sign, Infinity or digits with an optional fraction and exponent):
\* whether there is one, its sign, its digits without the point as a natural,
\* the power of ten it is divided by, and what follows it in str.
ScanDecimal(str) ==
    LET neg == str # <<>> /\ Head(str) = 45
        u == IF str # <<>> /\ Head(str) \in {43, 45} THEN Tail(str) ELSE str
        Literal(whole, frac, mantissa, ex) ==
            [found |-> TRUE, inf |-> FALSE, neg |-> neg,
             digits |-> DecimalNat(whole \o frac, <<>>),
             scale |-> Len(frac) - ex.exp, rest |-> Drop(u, mantissa + ex.len)]
        Mantissa(whole, frac, mantissa) ==
            IF whole = <<>> /\ frac = <<>>
            THEN [found |-> FALSE, inf |-> FALSE, neg |-> FALSE, digits |-> <<>>,
                  scale |-> 0, rest |-> str]
            ELSE Literal(whole, frac, mantissa, ExponentPart(Drop(u, mantissa)))
        Fraction(whole, hasDot, frac) ==
            Mantissa(whole, frac, Len(whole) + (IF hasDot THEN 1 + Len(frac) ELSE 0))
        Whole(whole) ==
            Fraction(whole, Len(u) > Len(whole) /\ u[Len(whole) + 1] = Dot,
                     IF Len(u) > Len(whole) /\ u[Len(whole) + 1] = Dot
                     THEN DigitRun(Drop(u, Len(whole) + 1)) ELSE <<>>)
    IN  IF startsWith(u, StrInfinity)
        THEN [found |-> TRUE, inf |-> TRUE, neg |-> neg, digits |-> <<>>,
              scale |-> 0, rest |-> Drop(u, Len(StrInfinity))]
        ELSE Whole(DigitRun(u))

\* parseFloat(str): leading white space is skipped, the longest prefix that is
\* a decimal literal is converted to the nearest double and whatever follows
\* it is ignored; NaN when there is no such prefix.
parseFloat(str) ==
    LET Nearest(lit) ==
            IF ~lit.found THEN DoubleNaN
            ELSE IF lit.inf THEN DoubleInfinity(lit.neg)
            ELSE RoundToDouble(lit.neg,
                               IF lit.scale >= 0 THEN lit.digits
                               ELSE TimesPow10(lit.digits, 0 - lit.scale),
                               IF lit.scale >= 0 THEN lit.scale ELSE 0, 0)
    IN  Nearest(ScanDecimal(TrimStart(str)))

isNaN(x) == x.kind = "nan"

\* A price handed to parsePrice: a string, or a number, which is written by the
\* decimal string that value.toString() returns for it.
PriceString(text) == [kind |-> "string", text |-> text]
PriceNumber(text) == [kind |-> "number", text |-> text]
toString(value) == value.text

PriceThrew(error) ==
    [kind |-> "parsed", threw |-> error, raw |-> <<>>, float |-> DoubleNaN,
     u64 |-> JsNaN, bytes |-> <<>>]

\* export function parsePrice(value: string | number): ParsedPrice
parsePrice(value) ==
    LET raw == IF value.kind = "number" THEN toString(value)
               ELSE IF startsWith(value.text, <<Quote>>)
                       /\ endsWith(value.text, <<Quote>>)
               THEN slice1(value.text)
               ELSE value.text
        \* return { raw, float, u64, bytes }
        Return(float, u64, bytes) ==
            IF isNaN(float) THEN PriceThrew("Invalid price value")
            ELSE IF bytes.threw # "none" THEN PriceThrew(bytes.threw)
            ELSE [kind |-> "parsed", threw |-> "none", raw |-> raw,
                  float |-> float, u64 |-> u64, bytes |-> bytes.bytes]
        \* const bytes = u64ToBytes(u64)
        Bytes(float, u64) == Return(float, u64, u64ToBytes(u64))
        \* const u64 = Math.round(float * MULTIPLIER)
        U64(float) == Bytes(float, MathRound(Multiply(float, MULTIPLIER)))
    \* const float = parseFloat(raw)
    IN  U64(parseFloat(raw))

\* BigInt(u64) of a negative integer in two's complement, as & and >> see it.
TwosComplement(mag) ==
    LET bits == [i \in 1..72 |-> 1 - BitsOf(mag)[73 - i]]
    IN  NatDigits(NatIncrement(bits))
BigIntSigned(value) ==
    IF value.neg /\ value.mag # ZeroBytes(9) THEN TwosComplement(value.mag)
    ELSE value.mag

\* function parsePrice(data: string) of the script, from the parsed object on:
\* parsed.eth_usd_price is the price handed in.
scriptParsePrice(value) ==
    LET priceStr == IF startsWith(value.text, <<Quote>>)
                    THEN slice1(value.text) ELSE value.text
        Return(float, u64) ==
            IF BigIntThrows(u64) THEN PriceThrew("RangeError")
            ELSE [kind |-> "parsed", threw |-> "none", raw |-> priceStr,
                  float |-> float, u64 |-> u64,
                  bytes |-> U64Loop(0, BigIntSigned(u64), <<>>)]
        \* const u64 = Math.round(parseFloat(priceStr) * 1_000_000)
        U64(float) == Return(float, MathRound(Multiply(float, MULTIPLIER)))
    IN  IF value.kind # "string" THEN PriceThrew("TypeError")
        ELSE U64(parseFloat(priceStr))

\* The price strings handed in, by their character codes.
\* '2821.41'
S2821_41 == <<50, 56, 50, 49, 46, 52, 49>>
\* '"2821.41000"'
SQuoted == <<34, 50, 56, 50, 49, 46, 52, 49, 48, 48, 48, 34>>
\* '3000'
S3000 == <<51, 48, 48, 48>>
\* '0.000001'
SMicro == <<48, 46, 48, 48, 48, 48, 48, 49>>
\* '0.0000005'
SHalfMicro == <<48, 46, 48, 48, 48, 48, 48, 48, 53>>
\* '0.0000004'
SBelowHalf == <<48, 46, 48, 48, 48, 48, 48, 48, 52>>
\* '16.0000005'
SSixteenHalf == <<49, 54, 46, 48, 48, 48, 48, 48, 48, 53>>
\* '1.0000005'
SOneHalf == <<49, 46, 48, 48, 48, 48, 48, 48, 53>>
\* '2821.4100005'
SLongHalf == <<50, 56, 50, 49, 46, 52, 49, 48, 48, 48, 48, 53>>
\* '-0.0000005'
SNegHalf == <<45, 48, 46, 48, 48, 48, 48, 48, 48, 53>>
\* '-1'
SNegOne == <<45, 49>>
\* '-0.0000015'
SNegOneHalf == <<45, 48, 46, 48, 48, 48, 48, 48, 49, 53>>
\* ''
SEmpty == <<>>
\* 'not-a-number'
SNotANumber == <<110, 111, 116, 45, 97, 45, 110, 117, 109, 98, 101, 114>>
\* '2821.41abc'
STrailing == <<50, 56, 50, 49, 46, 52, 49, 97, 98, 99>>
\* '12 USD'
STrailingUnit == <<49, 50, 32, 85, 83, 68>>
\* 'Infinity'
SInfinity == <<73, 110, 102, 105, 110, 105, 116, 121>>
\* '"2821.41'
SLeadingQuote == <<34, 50, 56, 50, 49, 46, 52, 49>>
\* '2821.41"'
STrailingQuote == <<50, 56, 50, 49, 46, 52, 49, 34>>
\* '"'
SQuoteOnly == <<34>>
\* '""'
SEmptyQuoted == <<34, 34>>
\* '""2821.41""'
STwiceQuoted == <<34, 34, 50, 56, 50, 49, 46, 52, 49, 34, 34>>
\* ' 42'
SSpace == <<32, 52, 50>>
\* '1e3'
SExp == <<49, 101, 51>>
\* '5e-7'
SExpNeg == <<53, 101, 45, 55>>
\* '.5'
SNoWhole == <<46, 53>>
\* '5.'
SNoFrac == <<53, 46>>
\* '+1'
SPlus == <<43, 49>>
\* '9007199254.740991'
SMaxSafe == <<57, 48, 48, 55, 49, 57, 57, 50, 53, 52, 46, 55, 52, 48, 57, 57, 49>>
\* '9007199254.740992'
SAboveSafe == <<57, 48, 48, 55, 49, 57, 57, 50, 53, 52, 46, 55, 52, 48, 57, 57, 50>>
\* '18446744073709.551616'
STwo64 == <<49, 56, 52, 52, 54, 55, 52, 52, 48, 55, 51, 55, 48, 57, 46, 53, 53, 49, 54, 49, 54>>
\* '0'
SZero == <<48>>
\* '0.1'
STenth == <<48, 46, 49>>
\* '1.005'
S1_005 == <<49, 46, 48, 48, 53>>
\* '-0'
SNegZero == <<45, 48>>
\* '1.2.3'
STwoPoints == <<49, 46, 50, 46, 51>>
PriceStrings ==
    {S2821_41, SQuoted, S3000, SMicro, SHalfMicro,
     SBelowHalf, SSixteenHalf, SOneHalf, SLongHalf, SNegHalf,
     SNegOne, SNegOneHalf, SEmpty, SNotANumber, STrailing,
     STrailingUnit, SInfinity, SLeadingQuote, STrailingQuote, SQuoteOnly,
     SEmptyQuoted, STwiceQuoted, SSpace, SExp, SExpNeg,
     SNoWhole, SNoFrac, SPlus, SMaxSafe, SAboveSafe,
     STwo64, SZero, STenth, S1_005, SNegZero,
     STwoPoints}
\* The numbers 2821.41 and 3000.
PriceNumbers == {S2821_41, S3000}
PriceInputs ==
    {PriceString(s) : s \in PriceStrings} \cup {PriceNumber(s) : s \in PriceNumbers}

\* const parsed = parsePrice(value)
ParsePrice ==
    /\ priceOut = NoField
    /\ priceOut' = parsePrice(priceIn)
    /\ UNCHANGED <<priceIn, scriptOut, notPriceVars>>

\* const price = parsePrice(dataStr)
ScriptParsePrice ==
    /\ scriptOut = NoField
    /\ scriptOut' = scriptParsePrice(priceIn)
    /\ UNCHANGED <<priceIn, priceOut, notPriceVars>>

InitPrice ==
    /\ InitOracle
    /\ IdleSig
    /\ IdleEnc
    /\ IdlePack
    /\ priceIn \in PriceInputs
    /\ priceOut = NoField
    /\ scriptOut = NoField

NextPrice ==
    \/ ParsePrice
    \/ ScriptParsePrice

SpecPrice == InitPrice /\ [][NextPrice]_vars

(***************************************************************************)
(* Properties of the price oracle.                                         *)
(***************************************************************************)
\* The fields of a submitted array as the layout declares them: the low byte of
\* each of the n slots from index start on, most significant first.
SlotBytes(publicInputs, start, n) == [i \in 1..n |-> publicInputs[start + i] % 256]
AttestorOf(publicInputs) == SlotBytes(publicInputs, 0, 20)
PackedHashOf(publicInputs) == SlotBytes(publicInputs, 54, 32)
TimestampOf(publicInputs) == publicInputs[22]

IsUpdate(call) == call.op = "updatePrice"
Succeeded(call) == call.error = "none"
AdminOps == {"proposeAttestor", "executeAttestorChange", "cancelAttestorChange",
             "transferOwnership"}

\* C1: for every packedHash (slots 54..85) at most one updatePrice carrying it ever
\* succeeds; a later updatePrice carrying a packedHash that already succeeded
\* reverts and changes nothing.
C1_ReplayProtection ==
    [][/\ \A h \in DOMAIN successCount' : successCount'[h] <= 1
       /\ (/\ IsUpdate(lastCall')
           /\ Len(lastCall'.publicInputs) >= EXPECTED_PUBLIC_INPUTS
           /\ PackedHashOf(lastCall'.publicInputs) \in DOMAIN successCount)
          => /\ ~Succeeded(lastCall')
             /\ UNCHANGED <<storageVars, successCount>>]_vars

C1_Witness ==
    /\ IsUpdate(lastCall)
    /\ lastCall.error = "ProofAlreadyUsed"
    /\ PackedHashOf(lastCall.publicInputs) \in DOMAIN successCount

\* C2: a successful updatePrice had verifier.verify return true and carried, in
\* slots 0..19, the trustedAttestor of the moment; a right-length call failing
\* either reverts with InvalidProof resp. InvalidAttestor.
C2_ProofAndAttestor ==
    IsUpdate(lastCall) =>
        /\ Succeeded(lastCall) =>
              /\ lastCall.proofOk
              /\ AttestorOf(lastCall.publicInputs) = trustedAttestor
        /\ Len(lastCall.publicInputs) = EXPECTED_PUBLIC_INPUTS =>
              /\ ~lastCall.proofOk => lastCall.error = "InvalidProof"
              /\ (/\ lastCall.proofOk
                  /\ AttestorOf(lastCall.publicInputs) # trustedAttestor)
                 => lastCall.error = "InvalidAttestor"

\* A proof for the attestor set at deployment is rejected after the change.
C2_Witness ==
    /\ IsUpdate(lastCall)
    /\ lastCall.proofOk
    /\ lastCall.error = "InvalidAttestor"
    /\ AttestorOf(lastCall.publicInputs) = Attestor1
    /\ trustedAttestor = Attestor2

\* The checks before the staleness check pass.
PassesToStaleness(call) ==
    /\ IsUpdate(call)
    /\ Len(call.publicInputs) = EXPECTED_PUBLIC_INPUTS
    /\ call.proofOk
    /\ AttestorOf(call.publicInputs) = trustedAttestor

\* C3: with the earlier checks passing, updatePrice reverts with AttestationTooOld
\* exactly when block.timestamp > slot 21 + 300; at block.timestamp = slot 21 + 300
\* the staleness check lets it through.
C3_Staleness ==
    PassesToStaleness(lastCall) =>
        /\ lastCall.error = "AttestationTooOld"
              <=> now > TimestampOf(lastCall.publicInputs) + 300
        /\ now = TimestampOf(lastCall.publicInputs) + 300
              => lastCall.error \in {"none", "ProofAlreadyUsed"}

C3_Witness ==
    /\ PassesToStaleness(lastCall)
    /\ now = TimestampOf(lastCall.publicInputs) + 300
    /\ Succeeded(lastCall)

\* C4: when slot 21 carries the attestation's millisecond timestamp, an updatePrice
\* more than 5 minutes (300 s) after the attestation's creation is rejected.
C4_MillisecondStaleness ==
    (/\ PassesToStaleness(lastCall)
     /\ TimestampOf(lastCall.publicInputs) % 1000 = 0
     /\ now > TimestampOf(lastCall.publicInputs) \div 1000 + 300)
    => ~Succeeded(lastCall)

\* C5: trustedAttestor changes only by a successful executeAttestorChange, to the
\* address of the latest proposeAttestor still open (not cancelled, not executed),
\* made at least ATTESTOR_TIMELOCK (2 days) earlier; execute succeeds only with a
\* pending proposal whose executeAfter has come; a successful proposeAttestor
\* overwrites the pending proposal with executeAfter = block time + 2 days.
C5_AttestorTimelock ==
    [][/\ (deployed /\ trustedAttestor' # trustedAttestor) =>
              /\ lastCall'.op = "executeAttestorChange"
              /\ Succeeded(lastCall')
              /\ proposal.open
              /\ trustedAttestor' = proposal.newAttestor
              /\ now >= proposal.at + 172800
       /\ (lastCall'.op = "executeAttestorChange" /\ Succeeded(lastCall')) =>
              /\ pendingAttestorChange.newAttestor # ZeroAddress
              /\ now >= pendingAttestorChange.executeAfter
              /\ trustedAttestor' = pendingAttestorChange.newAttestor
       /\ (lastCall'.op = "proposeAttestor" /\ Succeeded(lastCall')) =>
              pendingAttestorChange' =
                  [newAttestor |-> lastCall'.arg, executeAfter |-> now + 172800]]_vars

\* The attestor is replaced at the very second the timelock expires.
C5_Witness ==
    /\ lastCall.op = "executeAttestorChange"
    /\ Succeeded(lastCall)
    /\ trustedAttestor = Attestor2
    /\ now = GenesisTime + 172800

\* C6: the four admin functions revert with OnlyOwner, changing nothing, exactly
\* when the sender is not the current owner; a successful transferOwnership makes
\* its argument the owner; updatePrice never reverts with OnlyOwner.
C6_OwnerGating ==
    [][/\ lastCall'.op \in AdminOps =>
              /\ lastCall'.error = "OnlyOwner" <=> lastCall'.sender # owner
              /\ lastCall'.sender # owner => UNCHANGED <<storageVars, successCount>>
       /\ (lastCall'.op = "transferOwnership" /\ Succeeded(lastCall')) =>
              owner' = lastCall'.arg
       /\ IsUpdate(lastCall') => lastCall'.error # "OnlyOwner"]_vars

\* After a transfer the deployer, no longer owner, is rejected.
C6_Witness ==
    /\ lastCall.op \in AdminOps
    /\ lastCall.sender = Deployer
    /\ owner = Stranger
    /\ lastCall.error = "OnlyOwner"

\* C7: updatePrice reverts with InvalidPublicInputsLength whenever the array does
\* not hold exactly 86 slots, before the verifier is called and before any slot is
\* read; no call indexes a slot outside the array.
C7_LengthCheckFirst ==
    IsUpdate(lastCall) =>
        /\ Len(lastCall.publicInputs) # 86 =>
              /\ lastCall.error = "InvalidPublicInputsLength"
              /\ ~lastCall.verifierCalled
              /\ lastCall.slotsRead = {}
        /\ \A j \in lastCall.slotsRead : j < Len(lastCall.publicInputs)

C7_Witness ==
    /\ IsUpdate(lastCall)
    /\ lastCall.proofOk
    /\ Len(lastCall.publicInputs) = 85
    /\ lastCall.error = "InvalidPublicInputsLength"

\* C8: once deployed, verifier, trustedAttestor and owner are non-zero; the
\* constructor reverts with ZeroAddress for a zero verifier or attestor;
\* proposeAttestor(0) and transferOwnership(0) from the owner revert with
\* ZeroAddress (from anyone else with OnlyOwner).
C8_NoZeroAddress ==
    /\ deployed =>
          /\ verifier # ZeroAddress
          /\ trustedAttestor # ZeroAddress
          /\ owner # ZeroAddress
    /\ ~deployed => lastCall.op \in {"none", "constructor"}
    /\ (lastCall.op = "constructor" /\ ~deployed) => lastCall.error = "ZeroAddress"
    /\ (lastCall.op = "constructor" /\ lastCall.arg = ZeroAddress) =>
          (lastCall.error = "ZeroAddress" /\ ~deployed)
    /\ (/\ lastCall.op \in {"proposeAttestor", "transferOwnership"}
        /\ lastCall.arg = ZeroAddress)
       => lastCall.error = IF lastCall.sender = owner THEN "ZeroAddress"
                           ELSE "OnlyOwner"
    /\ pendingAttestorChange.newAttestor = ZeroAddress
          => pendingAttestorChange = NoPending

C8_Witness ==
    /\ lastCall.op = "proposeAttestor"
    /\ lastCall.arg = ZeroAddress
    /\ lastCall.sender = owner
    /\ lastCall.error = "ZeroAddress"

\* The slots that carry one byte each all hold a value in 0..255.
ByteSlots == (0..19) \cup (22..85)
CleanByteSlots(publicInputs) ==
    \A i \in ByteSlots : Slot(publicInputs, i) \in 0..255

\* C16: for an 86-slot array whose byte slots each hold a value in 0..255, a
\* successful updatePrice has read the attestor as the big-endian value of slots
\* 0..19 and stores in latestPrice the whole value of slot 20 as the price, the
\* whole value of slot 21 as the timestamp, the big-endian value of slots 22..53
\* as the response hash and of slots 54..85 as the packed hash.
C16_FixedOffsets ==
    (IsUpdate(lastCall) /\ Succeeded(lastCall)
        /\ Len(lastCall.publicInputs) = EXPECTED_PUBLIC_INPUTS
        /\ CleanByteSlots(lastCall.publicInputs)) =>
        LET publicInputs == lastCall.publicInputs IN
        /\ trustedAttestor = SubSeq(publicInputs, 1, 20)
        /\ latestPrice.price = publicInputs[21]
        /\ latestPrice.attestationTimestamp = publicInputs[22]
        /\ latestPrice.responseDataHash = SubSeq(publicInputs, 23, 54)
        /\ latestPrice.packedHash = SubSeq(publicInputs, 55, 86)
        /\ latestPrice.blockTimestamp = now

\* An update with clean byte slots has succeeded and its fields are stored.
C16_Witness ==
    /\ IsUpdate(lastCall) /\ Succeeded(lastCall)
    /\ CleanByteSlots(lastCall.publicInputs)
    /\ latestPrice.packedHash = HashOf(3)
    /\ latestPrice.responseDataHash # latestPrice.packedHash
    /\ latestPrice.price = 2821

\* The error of the first check of updatePrice that fails on a call, the checks
\* taken in the order length, proof, attestor, staleness, replay, against the
\* set of used hashes of the moment ("none" when all pass).  The staleness check
\* adds 300 to slot 21: when the sum overflows the word the check itself reverts.
FirstFailingCheck(call, used) ==
    LET publicInputs == call.publicInputs IN
    IF Len(publicInputs) # EXPECTED_PUBLIC_INPUTS THEN "InvalidPublicInputsLength"
    ELSE IF ~call.proofOk THEN "InvalidProof"
    ELSE IF AttestorOf(publicInputs) # trustedAttestor THEN "InvalidAttestor"
    ELSE IF TimestampOf(publicInputs) + 300 > WordMax THEN "Panic"
    ELSE IF now > TimestampOf(publicInputs) + 300 THEN "AttestationTooOld"
    ELSE IF PackedHashOf(publicInputs) \in used THEN "ProofAlreadyUsed"
    ELSE "none"

\* The step is a transaction calling op.
Calls(op) == lastCall = NoCall /\ lastCall'.op = op

\* C23: updatePrice reverts with the error of the first failing check in the order
\* length, proof, attestor, staleness, replay: a replayed proof that has become
\* stale reverts with AttestationTooOld, an array of the wrong length with
\* InvalidPublicInputsLength whatever the verifier would say.
C23_CheckOrder ==
    [][Calls("updatePrice") =>
          lastCall'.error = FirstFailingCheck(lastCall', usedProofHashes)]_vars

\* A proof that succeeded earlier is submitted again after it went stale.
C23_Witness ==
    /\ PassesToStaleness(lastCall)
    /\ PackedHashOf(lastCall.publicInputs) \in usedProofHashes
    /\ latestPrice.attestationTimestamp = TimestampOf(lastCall.publicInputs)
    /\ now > TimestampOf(lastCall.publicInputs) + 300
    /\ lastCall.error = "AttestationTooOld"

\* C24: an updatePrice that reverts leaves the whole storage as it was, so the
\* packed hash of the rejected proof is not marked as used; one that succeeds
\* writes latestPrice and adds its packed hash to usedProofHashes, and leaves
\* owner, trustedAttestor and pendingAttestorChange alone.
C24_UpdateFrame ==
    [][Calls("updatePrice") =>
          IF Succeeded(lastCall')
          THEN /\ UNCHANGED <<owner, trustedAttestor, pendingAttestorChange>>
               /\ usedProofHashes' =
                      usedProofHashes \cup {PackedHashOf(lastCall'.publicInputs)}
               /\ latestPrice'.packedHash = PackedHashOf(lastCall'.publicInputs)
          ELSE UNCHANGED storageVars]_vars

\* A proof for an attestor that is not trusted yet was rejected; its packed hash
\* is still unused and no price was stored.
C24_Witness ==
    /\ IsUpdate(lastCall)
    /\ lastCall.error = "InvalidAttestor"
    /\ PackedHashOf(lastCall.publicInputs) \notin usedProofHashes
    /\ usedProofHashes # {}
    /\ latestPrice.packedHash # PackedHashOf(lastCall.publicInputs)

\* C25: a successful executeAttestorChange or cancelAttestorChange clears
\* pendingAttestorChange; called by the owner with nothing pending, both revert
\* with NoPendingChange; the trusted attestor changes only by an execute that
\* consumes an open proposal, and a proposal is opened only by proposeAttestor, so
\* a proposal that was executed or cancelled is never executed (again).
C25_ConsumedOnce ==
    [][/\ (Calls("executeAttestorChange") \/ Calls("cancelAttestorChange")) =>
             /\ Succeeded(lastCall') =>
                   /\ pendingAttestorChange # NoPending
                   /\ pendingAttestorChange' = NoPending
                   /\ proposal.open /\ ~proposal'.open
             /\ (lastCall'.sender = owner /\ pendingAttestorChange = NoPending) =>
                   /\ lastCall'.error = "NoPendingChange"
                   /\ UNCHANGED storageVars
       /\ (deployed /\ trustedAttestor' # trustedAttestor) =>
             /\ Calls("executeAttestorChange") /\ Succeeded(lastCall')
             /\ trustedAttestor' = proposal.newAttestor
       /\ (~proposal.open /\ proposal'.open) =>
             Calls("proposeAttestor") /\ Succeeded(lastCall')
       /\ proposal'.open <=> pendingAttestorChange' # NoPending]_vars

\* The owner calls executeAttestorChange again after the change was applied.
C25_Witness ==
    /\ lastCall.op = "executeAttestorChange"
    /\ lastCall.sender = owner
    /\ lastCall.error = "NoPendingChange"
    /\ trustedAttestor = Attestor2
    /\ pendingAttestorChange = NoPending

\* C26: every array accepted by updatePrice holds a value in 0..255 in each of
\* its byte slots (0..19 and 22..85).
C26_ByteSlotsInRange ==
    (IsUpdate(lastCall) /\ Succeeded(lastCall)) =>
        CleanByteSlots(lastCall.publicInputs)

\* C27: usedProofHashes only grows, whatever the transaction, and an updatePrice
\* carrying a packed hash that is in it does not succeed.
C27_UsedOnlyGrows ==
    [][/\ usedProofHashes \subseteq usedProofHashes'
       /\ (/\ Calls("updatePrice")
           /\ Len(lastCall'.publicInputs) = EXPECTED_PUBLIC_INPUTS
           /\ PackedHashOf(lastCall'.publicInputs) \in usedProofHashes)
          => ~Succeeded(lastCall')]_vars

\* A used packed hash is rejected after both the owner and the trusted attestor
\* have changed.
C27_Witness ==
    /\ IsUpdate(lastCall)
    /\ lastCall.error = "ProofAlreadyUsed"
    /\ PackedHashOf(lastCall.publicInputs) \in usedProofHashes
    /\ trustedAttestor = Attestor2
    /\ owner = Stranger

\* C28: before any successful updatePrice getPrice returns (0, 0); after one,
\* latestPrice.packedHash is in usedProofHashes and latestPrice.blockTimestamp
\* is at most latestPrice.attestationTimestamp + 300; a successful updatePrice
\* makes getPrice return its slots 20 and 21, and no other step changes what
\* getPrice returns.
C28_LatestPrice ==
    /\ [](IF DOMAIN successCount = {}
          THEN getPrice = <<0, 0>>
          ELSE /\ latestPrice.packedHash \in usedProofHashes
               /\ latestPrice.blockTimestamp
                      <= latestPrice.attestationTimestamp + MAX_ATTESTATION_AGE)
    /\ [][IF Calls("updatePrice") /\ Succeeded(lastCall')
          THEN getPrice' = <<lastCall'.publicInputs[21], lastCall'.publicInputs[22]>>
          ELSE getPrice' = getPrice]_vars

\* After two successful updates a rejected one has left the price of the second.
C28_Witness ==
    /\ IsUpdate(lastCall) /\ ~Succeeded(lastCall)
    /\ DOMAIN successCount = PackedHashes
    /\ latestPrice.packedHash = HashOf(2)
    /\ latestPrice.blockTimestamp > latestPrice.attestationTimestamp
    /\ getPrice = <<2821, latestPrice.attestationTimestamp>>

\* C29: latestPrice.attestationTimestamp never decreases.
C29_TimestampMonotonic ==
    [][latestPrice'.attestationTimestamp >= latestPrice.attestationTimestamp]_vars

(***************************************************************************)
(* Properties of the signature verifier.                                   *)
(***************************************************************************)
Verified == sigResult # NotRun

\* Two strings are equal up to the case of their letters.
SameIgnoringCase(x, y) ==
    /\ Len(x) = Len(y)
    /\ \A i \in 1..Len(x) : ToLowerChar(x[i]) = ToLowerChar(y[i])

\* att carries an attestor and it is the signed one, however spelled.
SameAttestor ==
    /\ Len(att.attestors) = 1
    /\ SameIgnoringCase(att.attestors[1].attestorAddr,
                        signedAtt.attestors[1].attestorAddr)

\* att is the signed record up to the spelling of the attestor address.
Genuine == SameAttestor /\ [att EXCEPT !.attestors = signedAtt.attestors] = signedAtt

OnlyDataChanged ==
    att.data # signedAtt.data /\ [att EXCEPT !.data = signedAtt.data] = signedAtt
OnlyTimestampChanged ==
    /\ att.timestamp # signedAtt.timestamp
    /\ [att EXCEPT !.timestamp = signedAtt.timestamp] = signedAtt
OnlyAttestorSubstituted ==
    /\ Len(att.attestors) = 1
    /\ ~SameAttestor
    /\ [att EXCEPT !.attestors = signedAtt.attestors] = signedAtt

\* C9: verifyAttestationSignature returns valid = true exactly when the address
\* recovered from (encodeAttestation(att), signatures[0]) equals
\* attestors[0].attestorAddr up to letter case; it returns true for a genuinely
\* signed record, and false without throwing when only data, only timestamp or
\* only the attestor address was changed.
C9_VerifyResult ==
    Verified =>
        /\ ~sigResult.threw =>
              (sigResult.valid <=>
                  SameIgnoringCase(
                      recoverAddress(encodeAttestation(att), att.signatures[1]),
                      att.attestors[1].attestorAddr))
        /\ Genuine => (~sigResult.threw /\ sigResult.valid)
        /\ (OnlyDataChanged \/ OnlyTimestampChanged \/ OnlyAttestorSubstituted)
              => (~sigResult.threw /\ ~sigResult.valid)

\* A genuine record whose attestor address is spelled in another case verifies.
C9_Witness ==
    /\ Verified
    /\ Genuine
    /\ att.attestors[1].attestorAddr # signedAtt.attestors[1].attestorAddr
    /\ sigResult.valid

\* C10: verifyAttestationSignature never throws: for a malformed signature, an
\* empty signatures or attestors list or any other empty input it returns
\* valid = false.
C10_NeverThrows == Verified => (~sigResult.threw /\ (~Genuine => ~sigResult.valid))

(***************************************************************************)
(* Properties of the encoder.                                              *)
(***************************************************************************)
\* The byte strings the digest is a hash of, written field by field.
RecipientBytes(a) == AddressBytes(a.recipient)
RequestBytes(request) ==
    request.url \o request.header \o request.method \o request.body
EntryBytes(r) == r.keyName \o r.parseType \o r.parsePath
RECURSIVE ResolveBytes(_)
ResolveBytes(response) ==
    IF response = <<>> THEN <<>>
    ELSE EntryBytes(Head(response)) \o ResolveBytes(Tail(response))
TrailerBytes(a) ==
    a.data \o a.attConditions \o BigEndian(a.timestamp, 8) \o a.additionParams

Hash(bytes) == keccak256(ByteCells(bytes))
ReferenceDigest(a) ==
    keccak256(ByteCells(RecipientBytes(a)) \o
              <<Hash(RequestBytes(a.request))>> \o
              <<Hash(ResolveBytes(a.reponseResolve))>> \o
              ByteCells(TrailerBytes(a)))

EncodedBoth == encOut.ran /\ ~encOut.a.threw /\ ~encOut.b.threw

\* C11: encodeAttestation returns Hash(recipient as 20 bytes || Hash(url ||
\* header || method || body) || Hash(k1 || t1 || p1 || ... || kn || tn || pn) ||
\* data || attConditions || timestamp as 8 big-endian bytes || additionParams),
\* strings as their raw bytes with no padding and no length prefix, the response
\* part hashed once over all entries in array order (the hash of the empty
\* string for an empty list); the fold of encodeResponse yields the bytes of the
\* direct concatenation of encodeAttestationHash in the tests.
C11_ReferenceDigest ==
    EncodedBoth =>
        /\ encOut.a.digest = ReferenceDigest(recA)
        /\ encOut.b.digest = ReferenceDigest(recB)
        /\ encOut.a.response = Hash(ResolveBytes(recA.reponseResolve))
        /\ encOut.b.response = Hash(ResolveBytes(recB.reponseResolve))
        /\ encOut.a.digest = encOut.a.reference
        /\ encOut.b.digest = encOut.b.reference
        /\ recA.reponseResolve = <<>> => encOut.a.response = Hash(<<>>)

\* Two entries, different from each other, and an empty list have been encoded.
C11_Witness ==
    /\ EncodedBoth
    /\ Len(recB.reponseResolve) = 2
    /\ recB.reponseResolve[1] # recB.reponseResolve[2]
    /\ EntryBytes(recB.reponseResolve[1]) # EntryBytes(recB.reponseResolve[2])
    /\ encOut.b.digest = ReferenceDigest(recB)
    /\ recB.request.header # <<>> /\ recB.attConditions # <<>>

\* The fields of an attestation record the digest is computed from.
SameFields(a, b) ==
    /\ a.recipient = b.recipient
    /\ a.request = b.request
    /\ a.reponseResolve = b.reponseResolve
    /\ a.data = b.data
    /\ a.attConditions = b.attConditions
    /\ a.timestamp = b.timestamp
    /\ a.additionParams = b.additionParams

\* The two records are hashed from the same bytes.
SamePreimage(a, b) ==
    /\ RecipientBytes(a) = RecipientBytes(b)
    /\ RequestBytes(a.request) = RequestBytes(b.request)
    /\ ResolveBytes(a.reponseResolve) = ResolveBytes(b.reponseResolve)
    /\ TrailerBytes(a) = TrailerBytes(b)

\* C12 as stated: two attestation records that differ in the value of any field
\* get different digests, also when two adjacent string fields differ at once.
C12_BindsAllFields ==
    (EncodedBoth /\ ~SameFields(recA, recB)) => encOut.a.digest # encOut.b.digest

\* C12, amended: two attestation records get different digests exactly when they
\* differ in the 20 bytes of the recipient, in url || header || method || body,
\* in the concatenation of all keyName || parseType || parsePath, or in
\* data || attConditions || 8 timestamp bytes || additionParams; records whose
\* adjacent string fields differ at once but concatenate to the same bytes, or
\* whose recipients differ in letter case only, get the same digest.
C12_BindsPackedBytes ==
    EncodedBoth =>
        (encOut.a.digest = encOut.b.digest <=> SamePreimage(recA, recB))

\* Two adjacent string fields differ at once, with different concatenations.
C12_Witness ==
    /\ EncodedBoth
    /\ recA.request.header # recB.request.header
    /\ recA.request.method # recB.request.method
    /\ recA.data # recB.data
    /\ recA.attConditions # recB.attConditions
    /\ TrailerBytes(recA) = TrailerBytes(recB)
    /\ encOut.a.digest # encOut.b.digest

\* The fields C13 lists, and the two records agreeing on every field but f.
ListedFields ==
    {"url", "header", "resolve", "data", "attConditions", "timestamp", "additionParams"}
FieldOf(a, f) ==
    CASE f = "url" -> a.request.url
      [] f = "header" -> a.request.header
      [] f = "resolve" -> a.reponseResolve
      [] f = "data" -> a.data
      [] f = "attConditions" -> a.attConditions
      [] f = "timestamp" -> <<a.timestamp>>
      [] f = "additionParams" -> a.additionParams
SameExcept(a, b, f) ==
    /\ a.recipient = b.recipient
    /\ a.request.method = b.request.method
    /\ a.request.body = b.request.body
    /\ \A g \in ListedFields \ {f} : FieldOf(a, g) = FieldOf(b, g)

\* The entries at which two resolve lists of the same length differ.
ChangedEntries(ra, rb) == {i \in 1..Len(ra) : ra[i] # rb[i]}
OneEntryChanged(a, b) ==
    /\ Len(a.reponseResolve) = Len(b.reponseResolve)
    /\ Cardinality(ChangedEntries(a.reponseResolve, b.reponseResolve)) = 1
\* The strings in which two entries differ.
ChangedStrings(ea, eb) ==
    {k \in {"keyName", "parseType", "parsePath"} : ea[k] # eb[k]}
OneStringOfOneEntryChanged(a, b) ==
    /\ OneEntryChanged(a, b)
    /\ \A i \in ChangedEntries(a.reponseResolve, b.reponseResolve) :
           Cardinality(ChangedStrings(a.reponseResolve[i], b.reponseResolve[i])) = 1

\* recB is recA with the single field f changed.
SingleChange(f) ==
    /\ EncodedBoth
    /\ SameExcept(recA, recB, f)
    /\ FieldOf(recA, f) # FieldOf(recB, f)
    /\ f = "resolve" => OneEntryChanged(recA, recB)

\* C13 as stated: changing any single field while all others stay fixed (url,
\* header, any one responseResolve entry, data, attConditions, timestamp or
\* additionParams) changes the digest.
C13_SingleFieldChange ==
    \A f \in ListedFields : SingleChange(f) => encOut.a.digest # encOut.b.digest

\* C13, amended: changing any single field while all others stay fixed (url,
\* header, one of the strings keyName, parseType, parsePath of one
\* responseResolve entry, data, attConditions, timestamp or additionParams)
\* changes the digest; encodeRequest of two requests differing only in url
\* differ.  A changed entry whose three strings concatenate to the same bytes
\* as before leaves the digest as it was.
C13_SingleStringChange ==
    \A f \in ListedFields :
        SingleChange(f) =>
            /\ (f = "resolve" => OneStringOfOneEntryChanged(recA, recB))
                   => encOut.a.digest # encOut.b.digest
            /\ f = "url" => encOut.a.request # encOut.b.request
            /\ (f = "resolve" /\ ResolveBytes(recA.reponseResolve)
                                   = ResolveBytes(recB.reponseResolve))
                   => encOut.a.digest = encOut.b.digest

\* One string of one entry has been changed and nothing else.
C13_Witness ==
    /\ SingleChange("resolve")
    /\ OneStringOfOneEntryChanged(recA, recB)
    /\ Len(recA.reponseResolve) = 2
    /\ encOut.a.digest # encOut.b.digest

\* recA holds the two entries a, b and recB the same two in the other order.
Swapped ==
    /\ EncodedBoth
    /\ Len(recA.reponseResolve) = 2
    /\ recB.reponseResolve = <<recA.reponseResolve[2], recA.reponseResolve[1]>>
    /\ recA.reponseResolve[1] # recA.reponseResolve[2]

\* C14 as stated: for two distinct resolve entries a and b, encodeResponse([a, b])
\* differs from encodeResponse([b, a]).
C14_OrderSignificant == Swapped => encOut.a.response # encOut.b.response

\* C14, amended: for two resolve entries a and b, encodeResponse([a, b]) differs
\* from encodeResponse([b, a]) exactly when the packed strings A = keyName ||
\* parseType || parsePath of a and B of b do not commute, A || B # B || A; two
\* distinct entries with A = B (or with A and B powers of one string) give the
\* same response digest in both orders.
C14_OrderOfPackedStrings ==
    Swapped =>
        LET A == EntryBytes(recA.reponseResolve[1])
            B == EntryBytes(recA.reponseResolve[2])
        IN  encOut.a.response # encOut.b.response <=> A \o B # B \o A

\* Two entries whose packed strings do not commute, encoded in both orders.
C14_Witness ==
    /\ Swapped
    /\ recA.reponseResolve = <<EntryAB, EntryBA>>
    /\ encOut.a.response # encOut.b.response
    /\ encOut.a.digest # encOut.b.digest

(***************************************************************************)
(* Properties of the packer and of the price library.                      *)
(***************************************************************************)
\* The hex string is exactly n bytes: 2n hex digits after an optional 0x.
WellFormedHex(hex, n) ==
    LET h == Strip0x(hex) IN
    Len(h) = 2 * n /\ \A i \in 1..Len(h) : IsHexChar(h[i])
IsHexField == packIn.kind \in {"address", "hash"}
ValidHexField ==
    IsHexField /\ ~packIn.missing /\ WellFormedHex(packIn.hex, packIn.slots)
\* The number is an integer in 0 .. 2^64 - 1.
IsU64(value) ==
    /\ ~value.nan /\ value.int
    /\ value.mag[1] = 0
    /\ value.neg => value.mag = ZeroBytes(9)
\* a === b for two numbers (0 and -0 are equal, NaN equals nothing)
NumEq(a, b) ==
    /\ ~a.nan /\ ~b.nan
    /\ a.int = b.int /\ a.mag = b.mag
    /\ a.neg = b.neg \/ (a.int /\ a.mag = ZeroBytes(9))
ReadBack == unpacked # NoField

\* C17 as stated: for any 20-byte address, any price and any 32-byte hash,
\* writing them one byte per slot most significant byte first (hexToArray,
\* u64ToBytes) and reading them back (_extractAddress, _extractBytes32,
\* bytesToU64) returns the original address, price and hash.
C17_RoundTrip ==
    /\ (ValidHexField /\ Converted) =>
           /\ Produced
           /\ Len(packed.array) = packIn.slots
           /\ AllBytes(packed.array)
    /\ (ValidHexField /\ ReadBack) =>
           /\ unpacked.threw = "none"
           /\ hexlify(unpacked.value) = <<48, 120>> \o toLowerCase(Strip0x(packIn.hex))
    /\ (packIn.kind = "price" /\ IsU64(packIn.value) /\ Converted) =>
           /\ Produced
           /\ Len(packed.bytes) = 8
    /\ (packIn.kind = "price" /\ IsU64(packIn.value) /\ ReadBack) =>
           /\ unpacked.threw = "none"
           /\ NumEq(unpacked.value, packIn.value)

\* C18 as stated: the packer rejects any field whose byte width does not match
\* its declared slot count: an attestor address that is not exactly 20 bytes, a
\* hash that is not exactly 32 bytes, hex of odd length or with non-hex
\* characters make it fail instead of producing an array.
C18_RejectsWrongWidth ==
    (IsHexField /\ Converted /\ ~ValidHexField) => packed.threw # "none"

\* C19 as stated: u64ToBytes followed by bytesToU64 is lossless for every value
\* in 0 .. 2^64 - 1, bytesToU64(u64ToBytes(v)) = v, and
\* u64ToBytes(bytesToU64(b)) = b for every 8-byte array b.
C19_Lossless ==
    /\ (packIn.kind = "price" /\ IsU64(packIn.value) /\ Converted) =>
           /\ packed.threw = "none"
           /\ ReadBack => (unpacked.threw = "none"
                           /\ NumEq(packIn.value, unpacked.value))
    /\ (packIn.kind = "bytes" /\ Len(packIn.bytes) = 8 /\ Converted) =>
           /\ packed.threw = "none"
           /\ ReadBack => (unpacked.threw = "none"
                           /\ unpacked.bytes = packIn.bytes)

\* The number is below zero.
Negative(value) ==
    ~value.nan /\ value.neg /\ ~(value.int /\ value.mag = ZeroBytes(9))

\* C20: u64ToBytes fails with an 'out of u64 range' error for every negative
\* input and returns no bytes; for every input it accepts it returns exactly 8
\* entries, each in 0..255, most significant byte first (eight zeros for 0,
\* seven zeros then 255 for 255).
C20_U64ToBytes ==
    (packIn.kind = "price" /\ Converted) =>
        /\ Negative(packIn.value) =>
               packed.threw = "out of u64 range" /\ packed.bytes = <<>>
        /\ packed.threw = "none" =>
               /\ Len(packed.bytes) = 8
               /\ AllBytes(packed.bytes)
               /\ Digits(packed.bytes) = packIn.value.mag
        /\ packIn.value = JsInt(ZeroBytes(9)) =>
               packed = [threw |-> "none", bytes |-> ZeroBytes(8)]
        /\ packIn.value = JsInt(Digits(ZeroBytes(7) \o <<255>>)) =>
               packed = [threw |-> "none", bytes |-> ZeroBytes(7) \o <<255>>]

\* u64ToBytes has accepted 2821410000.
C20_Witness ==
    /\ packIn.kind = "price"
    /\ Produced
    /\ packed.bytes = <<0, 0, 0, 0, 168, 43, 76, 208>>
    /\ packIn.value.mag = Digits(packed.bytes)

(***************************************************************************)
(* Properties of parsePrice.                                               *)
(***************************************************************************)
Parsed == priceOut # NoField
ScriptParsed == scriptOut # NoField

\* The price string without one level of surrounding double quotes; a number is
\* the string that writes it.
Unquoted(value) ==
    IF value.kind = "string" /\ Len(value.text) >= 2
           /\ Head(value.text) = Quote /\ value.text[Len(value.text)] = Quote
    THEN slice1(value.text)
    ELSE value.text

\* The string is, in its entirety, a finite decimal number.
WholeDecimal(str) ==
    LET Entire(lit) == lit.found /\ ~lit.inf /\ lit.rest = <<>>
    IN  Entire(ScanDecimal(str))

\* The decimal number written by str times 1,000,000, rounded to the nearest
\* integer, a half away from zero: with x the magnitude of the product, the
\* magnitude of the result is the integer part of (floor(2 * x) + 1) / 2.
ScaledPrice(str) ==
    LET Halved(neg, floor2x) ==
            JsNumber(neg, TRUE, NatDigits(NatShr(NatIncrement(floor2x), 1)))
        Doubled(lit, twice) ==
            Halved(lit.neg, IF lit.scale >= 0
                            THEN OverPow10(twice, lit.scale, FALSE).quot
                            ELSE TimesPow10(twice, 0 - lit.scale))
        Scaled(lit) ==
            Doubled(lit, NatMulAdd(NatMulAdd(lit.digits, MULTIPLIER, 0), 2, 0))
    IN  Scaled(ScanDecimal(str))

\* C21: for a price that is a decimal number (after one level of surrounding
\* double quotes is removed), parsePrice returns the price times 1,000,000
\* rounded to the nearest integer, halves away from zero, and the 8 big-endian
\* bytes of that integer; it returns whenever that integer is one that
\* u64ToBytes accepts.
C21_ScaledAndRounded ==
    LET Expected(expected) ==
            /\ priceOut.threw = "none" =>
                   /\ NumEq(priceOut.u64, expected)
                   /\ Digits(priceOut.bytes) = expected.mag
            /\ (~Negative(expected) /\ ~GreaterThanMaxSafe(expected)) =>
                   priceOut.threw = "none"
    IN  (Parsed /\ WholeDecimal(Unquoted(priceIn))) =>
            Expected(ScaledPrice(Unquoted(priceIn)))

\* C22: for every string that is empty or is not in its entirety a finite decimal
\* number (after quote stripping), parsePrice fails with 'Invalid price' and
\* returns nothing.
C22_RejectsNonNumbers ==
    (Parsed /\ priceIn.kind = "string" /\ ~WholeDecimal(Unquoted(priceIn))) =>
        priceOut.threw = "Invalid price value"

\* C30: on every price string the script's parsePrice returns the integer and
\* the 8 bytes that the library's parsePrice returns, and fails whenever the
\* library's fails.
C30_ScriptAgrees ==
    (Parsed /\ ScriptParsed /\ priceIn.kind = "string") =>
        IF priceOut.threw = "none"
        THEN /\ scriptOut.threw = "none"
             /\ NumEq(scriptOut.u64, priceOut.u64)
             /\ scriptOut.bytes = priceOut.bytes
        ELSE scriptOut.threw # "none"

====
